---- MODULE Spec2Model ----
(***************************************************************************)
(* Squarespace map plugin (src/src/main.ts): a published sheet is fetched  *)
(* as CSV, its rows are classified by parseLocations, rows that only have  *)
(* an address are geocoded through a localStorage-backed cache, and the    *)
(* located rows are handed to initMap.                                     *)
(*                                                                         *)
(* Text is a sequence of characters, each a string, so that trim,          *)
(* toLowerCase and Number.parseFloat are computed character by character;  *)
(* a character outside ASCII is an element under its name ("NBSP").        *)
(* toLowerCase is computed for the ASCII letters.  A JS number is a record *)
(* [k, m, e]: k = "num" stands for the double that Number::toString names  *)
(* m * 10^e (m is not a multiple of 10 unless it is 0), k = "Infinity" for *)
(* +/-Infinity (m is the sign) and k = "NaN" for NaN.  parseFloat rounds   *)
(* to Infinity and to zero at the thresholds of the double format and, in  *)
(* the subnormal range, to the nearest multiple of 2^-1074 under its       *)
(* shortest name.  The sign of a zero is not kept, and the digits of a     *)
(* literal stay below 2^31.                                                *)
(***************************************************************************)
EXTENDS Integers, Sequences, FiniteSets, TLC

VARIABLES
    data,       \* result.data of Papa.parse for the published sheet: raw rows
    parsed,     \* SpecParse: what parseLocations returned for data
    snapshot,   \* SpecCache: what getGeocodeCache returned for storage at now
    config,     \* window.MapPluginConfig and whether the container element exists
    runs,       \* one record per invocation of run(): where it stands and its locals
    container,  \* container.innerHTML, the display surface
    storage,    \* localStorage item "mapPluginGeocodeCache"
    now,        \* Date.now()
    script,     \* the Google Maps <script> element: none, loading, loaded, failed
    google,     \* whether window.google is defined
    injected,   \* how many script elements loadGoogleMapsScript has appended
    popup       \* the info window of each run's map: what the last click put in it

vars == <<data, parsed, snapshot, config, runs, container, storage, now,
          script, google, injected, popup>>

----------------------------------------------------------------------------
(* Text: String.prototype.trim and toLowerCase                             *)

\* The line tabulation U+000B, written as the character itself.
VT == ""

\* A character outside ASCII is an element of a text under a name: the
\* no-break space U+00A0, and the other white space and line terminators
\* outside ASCII (the space separators of Unicode, the line and paragraph
\* separators and the byte order mark).
NBSP == "NBSP"

\* The WhiteSpace and LineTerminator code points that trim and parseFloat
\* strip: space, tab, line feed, line tabulation, form feed, carriage return,
\* no-break space and those outside ASCII.
WhiteSpace ==
    {" ", "\t", "\n", VT, "\f", "\r", NBSP}
    \cup
    {"U+1680", "U+2000", "U+2001", "U+2002", "U+2003", "U+2004", "U+2005",
     "U+2006", "U+2007", "U+2008", "U+2009", "U+200A", "U+2028", "U+2029",
     "U+202F", "U+205F", "U+3000", "U+FEFF"}

Digits == {"0", "1", "2", "3", "4", "5", "6", "7", "8", "9"}

DigitVal(c) ==
    (CHOOSE i \in 1..10 :
        <<"0", "1", "2", "3", "4", "5", "6", "7", "8", "9">>[i] = c) - 1

\* The ASCII capitals and, position by position, what toLowerCase makes of
\* them.
UpperChars ==
    <<"A", "B", "C", "D", "E", "F", "G", "H", "I", "J", "K", "L", "M",
      "N", "O", "P", "Q", "R", "S", "T", "U", "V", "W", "X", "Y", "Z">>

LowerChars ==
    <<"a", "b", "c", "d", "e", "f", "g", "h", "i", "j", "k", "l", "m",
      "n", "o", "p", "q", "r", "s", "t", "u", "v", "w", "x", "y", "z">>

Drop(s, n) == SubSeq(s, n + 1, Len(s))

StartsWith(s, lit) == Len(s) >= Len(lit) /\ SubSeq(s, 1, Len(lit)) = lit

RECURSIVE TrimStart(_)
TrimStart(s) ==
    IF s # <<>> /\ s[1] \in WhiteSpace THEN TrimStart(Tail(s)) ELSE s

RECURSIVE TrimEnd(_)
TrimEnd(s) ==
    IF s # <<>> /\ s[Len(s)] \in WhiteSpace
    THEN TrimEnd(SubSeq(s, 1, Len(s) - 1))
    ELSE s

Trim(s) == TrimEnd(TrimStart(s))

\* The table as a function from each capital to its lower-case letter.
LowerOf ==
    [c \in {UpperChars[i] : i \in 1..Len(UpperChars)} |->
        LowerChars[CHOOSE i \in 1..Len(UpperChars) : UpperChars[i] = c]]

LowerChar(c) == IF c \in DOMAIN LowerOf THEN LowerOf[c] ELSE c

ToLowerCase(s) == [i \in 1..Len(s) |-> LowerChar(s[i])]

----------------------------------------------------------------------------
(* Numbers: Number.parseFloat, Number.isNaN                                *)

NaN == [k |-> "NaN", m |-> 0, e |-> 0]

Infinity(sign) == [k |-> "Infinity", m |-> sign, e |-> 0]

InfinityLit == <<"I", "n", "f", "i", "n", "i", "t", "y">>

RECURSIVE NumDigits(_)
NumDigits(n) == IF n < 10 THEN 1 ELSE 1 + NumDigits(n \div 10)

Abs(n) == IF n < 0 THEN 0 - n ELSE n

\* a * 10^k
RECURSIVE Shift(_, _)
Shift(a, k) == IF k = 0 THEN a ELSE Shift(a * 10, k - 1)

\* a, a natural of n digits (at most 10) read as the decimal d.ddd..., lies
\* above d9.d1, where d9 is a natural of 9 digits read the same way and d1
\* the digit that follows it.
Above(a, n, d9, d1) ==
    IF n = 10
    THEN a \div 10 > d9 \/ (a \div 10 = d9 /\ a % 10 > d1)
    ELSE Shift(a, 9 - n) > d9

\* Naturals beyond 2^31 are sequences of limbs: digits in base 10^4, the
\* least significant first.
Base == 10000

RECURSIVE Limbs(_)
Limbs(n) == IF n < Base THEN <<n>> ELSE <<n % Base>> \o Limbs(n \div Base)

RECURSIVE LimbsToNat(_)
LimbsToNat(a) == IF a = <<>> THEN 0 ELSE a[1] + Base * LimbsToNat(Tail(a))

RECURSIVE AddLimbs(_, _, _)
AddLimbs(a, b, carry) ==
    IF a = <<>> /\ b = <<>> THEN (IF carry = 0 THEN <<>> ELSE <<carry>>)
    ELSE IF a = <<>> THEN AddLimbs(<<0>>, b, carry)
    ELSE IF b = <<>> THEN AddLimbs(a, <<0>>, carry)
    ELSE <<(a[1] + b[1] + carry) % Base>>
         \o AddLimbs(Tail(a), Tail(b), (a[1] + b[1] + carry) \div Base)

\* a * d + carry for one limb d
RECURSIVE MulLimb(_, _, _)
MulLimb(a, d, carry) ==
    IF a = <<>> THEN (IF carry = 0 THEN <<>> ELSE <<carry>>)
    ELSE <<(a[1] * d + carry) % Base>>
         \o MulLimb(Tail(a), d, (a[1] * d + carry) \div Base)

RECURSIVE MulLimbs(_, _)
MulLimbs(a, b) ==
    IF b = <<>> THEN <<>>
    ELSE AddLimbs(MulLimb(a, b[1], 0), <<0>> \o MulLimbs(a, Tail(b)), 0)

\* The smallest double is u = 2^-1074 = 4.94065645841246544...e-324, and
\* every double below 2^-1022 is a multiple of it.  HalfUnit is u / 2 in units
\* of 1e-324 to 28 decimals (2.4703282292062327208828439643), as limbs.  No
\* decimal of at most 10 digits comes nearer than 6e-10 units to the middle
\* between two doubles, so the digits kept decide every rounding.
HalfUnit == <<9643, 2843, 2088, 2327, 9206, 2822, 4703, 2>>

\* The multiple of u nearest to a * 10^e, for e from -333 to -324, as its
\* number of units: 1e-324 / u is 0.202402253307310618352495346 to 27
\* decimals, the limbs of the product below, so that a * 10^(e + 333) times
\* them is the quotient scaled by 10^36, to which a half is added before the
\* 36 decimals (9 limbs) are cut.
Units(a, e) ==
    LimbsToNat(Drop(AddLimbs(MulLimbs(MulLimbs(Limbs(a), Limbs(Shift(1, e + 333))),
                                      <<5346, 5249, 6183, 7310, 5330, 4022, 202>>),
                             <<0, 0, 0, 0, 0, 0, 0, 0, 5000>>, 0), 9))

\* floor(n * u / 2) in units of 1e-324: with n = 2k - 1 and n = 2k + 1 the
\* bounds of what rounds to k units, every integer above the first and up to
\* the second lying between them.
HalfUnits(n) == LimbsToNat(Drop(MulLimbs(Limbs(n), HalfUnit), 7))

\* k * u rounded to a whole number of 1e-324.
NearestTo(k) ==
    LimbsToNat(Drop(AddLimbs(MulLimbs(Limbs(2 * k), HalfUnit),
                             <<0, 0, 0, 0, 0, 0, 5000>>, 0), 7))

\* Number::toString names a double by the decimal of fewest digits that
\* rounds to it, and by the nearest one of these: the multiple of 10^g
\* between the bounds for the largest g that has one (two bounds are less
\* than 10 apart, so for g > 0 there is at most one), in units of 1e-324.
RECURSIVE Shortest(_, _, _, _)
Shortest(lo, hi, g, nearest) ==
    IF g = 0 THEN nearest
    ELSE IF hi - (hi % Shift(1, g)) > lo THEN hi - (hi % Shift(1, g))
    ELSE Shortest(lo, hi, g - 1, nearest)

\* m * 10^e in lowest terms, for m other than 0.
RECURSIVE Lowest(_, _)
Lowest(m, e) ==
    IF m % 10 = 0 THEN Lowest(m \div 10, e + 1) ELSE [k |-> "num", m |-> m, e |-> e]

\* The double that has k units, with its sign, under the name toString gives it.
Subnormal(sign, k) ==
    IF k = 0 THEN [k |-> "num", m |-> 0, e |-> 0]
    ELSE Lowest(sign * Shortest(HalfUnits(2 * k - 1), HalfUnits(2 * k + 1), 9,
                                NearestTo(k)),
                0 - 324)

\* The double nearest to m * 10^e, named by its shortest decimal.  A decimal
\* of order 308 that lies above 1.797693134862315807e308, half way between
\* the largest double and 2^1024, is Infinity.  A decimal written to the
\* place 1e-324 or to a lower one is rounded to a multiple of u: to 0 up to
\* 2.4703282292e-324, to 5e-324 up to 7.4109846876e-324, to 1e-323 above
\* that, and so on (12e-324 is 1e-323, 13e-324 is 1.5e-323).  A decimal of at
\* most 10 digits written to a higher place is itself the shortest name of
\* the double nearest to it, doubles being less than 1e-323 apart where they
\* are multiples of u and having more than 15 digits elsewhere.
RECURSIVE Num(_, _)
Num(m, e) ==
    IF m = 0 THEN [k |-> "num", m |-> 0, e |-> 0]
    ELSE IF m % 10 = 0 THEN Num(m \div 10, e + 1)
    ELSE IF NumDigits(Abs(m)) + e - 1 > 308
         THEN Infinity(IF m < 0 THEN 0 - 1 ELSE 1)
    ELSE IF NumDigits(Abs(m)) + e - 1 = 308
            /\ Above(Abs(m), NumDigits(Abs(m)), 179769313, 4)
         THEN Infinity(IF m < 0 THEN 0 - 1 ELSE 1)
    ELSE IF NumDigits(Abs(m)) + e - 1 < 0 - 324
         THEN [k |-> "num", m |-> 0, e |-> 0]
    ELSE IF e < 0 - 323
         THEN Subnormal(IF m < 0 THEN 0 - 1 ELSE 1, Units(Abs(m), e))
    ELSE [k |-> "num", m |-> m, e |-> e]

RECURSIVE NumLeadingDigits(_)
NumLeadingDigits(s) ==
    IF s # <<>> /\ s[1] \in Digits THEN 1 + NumLeadingDigits(Tail(s)) ELSE 0

RECURSIVE DigitsToNat(_)
DigitsToNat(s) ==
    IF s = <<>> THEN 0
    ELSE 10 * DigitsToNat(SubSeq(s, 1, Len(s) - 1)) + DigitVal(s[Len(s)])

\* Number.parseFloat (ECMAScript parseFloat): leading white space is
\* skipped, then the LONGEST prefix that is a StrDecimalLiteral is
\* converted; what follows the prefix is ignored.  The scan goes through the
\* text in stages, each taking the state [sign, digits, scale, exp, used,
\* rest] left by the one before: sign is 1 or -1, digits the digits of the
\* integer and fraction parts read so far, scale the number of fraction
\* digits, exp the exponent, used the number of characters converted and rest
\* the text still to read.
ScanSign(t) ==
    IF t # <<>> /\ t[1] \in {"+", "-"}
    THEN [sign |-> IF t[1] = "-" THEN 0 - 1 ELSE 1, digits |-> <<>>, scale |-> 0,
          exp |-> 0, used |-> 1, rest |-> Tail(t)]
    ELSE [sign |-> 1, digits |-> <<>>, scale |-> 0, exp |-> 0, used |-> 0, rest |-> t]

\* DecimalDigits, read into digits.
ScanDigits(st, n) ==
    [st EXCEPT !.digits = @ \o SubSeq(st.rest, 1, n),
               !.used   = @ + n,
               !.rest   = Drop(@, n)]

ScanInt(st) == ScanDigits(st, NumLeadingDigits(st.rest))

\* "." DecimalDigits_opt
ScanFracDigits(st, n) ==
    [st EXCEPT !.digits = @ \o SubSeq(st.rest, 2, n + 1),
               !.scale  = n,
               !.used   = @ + n + 1,
               !.rest   = Drop(@, n + 1)]

ScanFrac(st) ==
    IF st.rest # <<>> /\ st.rest[1] = "."
    THEN ScanFracDigits(st, NumLeadingDigits(Tail(st.rest)))
    ELSE st

\* ExponentPart_opt: "e" or "E", an optional sign, and at least one digit;
\* without a digit the exponent is not part of the number.
ScanExpDigits(st, signLen, sign, n) ==
    IF n = 0 THEN st
    ELSE [st EXCEPT !.exp  = sign * DigitsToNat(SubSeq(st.rest, signLen + 2,
                                                       signLen + 1 + n)),
                    !.used = @ + signLen + 1 + n,
                    !.rest = Drop(@, signLen + 1 + n)]

ScanExpSign(st, signLen) ==
    ScanExpDigits(st, signLen,
                  IF signLen = 1 /\ st.rest[2] = "-" THEN 0 - 1 ELSE 1,
                  NumLeadingDigits(Drop(st.rest, signLen + 1)))

ScanExp(st) ==
    IF st.rest # <<>> /\ st.rest[1] \in {"e", "E"}
    THEN ScanExpSign(st, IF Len(st.rest) > 1 /\ st.rest[2] \in {"+", "-"} THEN 1 ELSE 0)
    ELSE st

ScanExpIfDigits(st) == IF st.digits = <<>> THEN st ELSE ScanExp(st)

\* The decimal literal after the sign: no digit at all is NaN.
ScanLiteral(st) ==
    IF st.digits = <<>>
    THEN [val |-> NaN, used |-> 0]
    ELSE [val  |-> Num(st.sign * DigitsToNat(st.digits), st.exp - st.scale),
          used |-> st.used]

ScanNumber(st) ==
    IF StartsWith(st.rest, InfinityLit)
    THEN [val |-> Infinity(st.sign), used |-> st.used + Len(InfinityLit)]
    ELSE ScanLiteral(ScanExpIfDigits(ScanFrac(ScanInt(st))))

\* val is the result and used the number of characters of the text, after
\* its leading white space, that were converted.
ScanFloat(s) == ScanNumber(ScanSign(TrimStart(s)))

parseFloat(s) == ScanFloat(s).val

isNaN(v) == v.k = "NaN"

isFinite(v) == v.k = "num"

----------------------------------------------------------------------------
(* parseLocations                                                          *)

\* raw[col] ?? "": a column the sheet does not have reads as the empty text.
Col(raw, col) == IF col \in DOMAIN raw THEN raw[col] ELSE <<>>

hasCoords(latitude, longitude) == ~isNaN(latitude) /\ ~isNaN(longitude)

\* RowClass without the check of the name.
RowClass_NoNameCheck(raw) ==
    IF hasCoords(parseFloat(Trim(Col(raw, "Latitude"))),
                 parseFloat(Trim(Col(raw, "Longitude"))))
    THEN "coords"
    ELSE IF Trim(Col(raw, "Address")) # <<>> THEN "geocode"
    ELSE "skip"

\* RowClass with the address looked at before the coordinates.
RowClass_AddressFirst(raw) ==
    IF Trim(Col(raw, "Name")) = <<>> THEN "skip"
    ELSE IF Trim(Col(raw, "Address")) # <<>> THEN "geocode"
    ELSE IF hasCoords(parseFloat(Trim(Col(raw, "Latitude"))),
                      parseFloat(Trim(Col(raw, "Longitude"))))
    THEN "coords"
    ELSE "skip"

\* What the loop body does with one row: "coords" (pushed to withCoords),
\* "geocode" (pushed to needsGeocode) or "skip" (warned about and dropped).
RowClass(raw) ==
    LET name      == Trim(Col(raw, "Name"))
        latRaw    == Trim(Col(raw, "Latitude"))
        lngRaw    == Trim(Col(raw, "Longitude"))
        address   == Trim(Col(raw, "Address"))
        latitude  == parseFloat(latRaw)
        longitude == parseFloat(lngRaw)
    IN  IF name = <<>> THEN "skip"
        ELSE IF hasCoords(latitude, longitude) THEN "coords"
        ELSE IF address # <<>> THEN "geocode"
        ELSE "skip"

\* The LocationRow pushed for a row with coordinates.  row is not a field of
\* the code's record: it is the index of the source row, kept so that an
\* entry can be traced back to the row it was made from.
CoordsEntry(raw, i) ==
    [ name        |-> Trim(Col(raw, "Name")),
      latitude    |-> parseFloat(Trim(Col(raw, "Latitude"))),
      longitude   |-> parseFloat(Trim(Col(raw, "Longitude"))),
      description |-> Trim(Col(raw, "Description")),
      linkUrl     |-> Trim(Col(raw, "LinkURL")),
      linkText    |-> Trim(Col(raw, "LinkText")),
      row         |-> i ]

\* The RowNeedingGeocode pushed for a row with an address only.
PendingEntry(raw, i) ==
    [ name        |-> Trim(Col(raw, "Name")),
      address     |-> Trim(Col(raw, "Address")),
      description |-> Trim(Col(raw, "Description")),
      linkUrl     |-> Trim(Col(raw, "LinkURL")),
      linkText    |-> Trim(Col(raw, "LinkText")),
      row         |-> i ]

\* ParseLoop that puts each entry at the front of its sequence.
RECURSIVE ParseLoop_Reversed(_, _, _)
ParseLoop_Reversed(rows, i, acc) ==
    IF i > Len(rows) THEN acc
    ELSE ParseLoop_Reversed(rows, i + 1,
             IF RowClass(rows[i]) = "coords"
             THEN [acc EXCEPT !.withCoords = <<CoordsEntry(rows[i], i)>> \o @]
             ELSE IF RowClass(rows[i]) = "geocode"
             THEN [acc EXCEPT !.needsGeocode = <<PendingEntry(rows[i], i)>> \o @]
             ELSE acc)

RECURSIVE ParseLoop(_, _, _)
ParseLoop(rows, i, acc) ==
    IF i > Len(rows) THEN acc
    ELSE LET c == RowClass(rows[i])
         IN  ParseLoop(rows, i + 1,
                 IF c = "coords"
                 THEN [acc EXCEPT !.withCoords = Append(@, CoordsEntry(rows[i], i))]
                 ELSE IF c = "geocode"
                 THEN [acc EXCEPT !.needsGeocode = Append(@, PendingEntry(rows[i], i))]
                 ELSE acc)

parseLocations(rows) ==
    ParseLoop(rows, 1, [withCoords |-> <<>>, needsGeocode |-> <<>>])

NotParsed == [done |-> FALSE, withCoords |-> <<>>, needsGeocode |-> <<>>]

----------------------------------------------------------------------------
(* The geocode cache: getGeocodeCache, setGeocodeCacheEntry, cacheKey      *)

GEOCODE_CACHE_TTL_MS == 7 * 24 * 60 * 60 * 1000

\* JS values other than numbers that JSON can put in a field: null and a
\* string that is not empty; undefined is what reading a missing field gives.
Null == [k |-> "null", m |-> 0, e |-> 0]

Str == [k |-> "string", m |-> 0, e |-> 0]

Undefined == [k |-> "undefined", m |-> 0, e |-> 0]

\* An object as the value of a property, with its own lat, lng and ts
\* (undefined and 0 where it has none).
ObjectValue(lat, lng, ts) ==
    [k |-> "object", m |-> 0, e |-> 0, lat |-> lat, lng |-> lng, ts |-> ts]

typeofNumber(v) == v.k \in {"num", "NaN", "Infinity"}

\* A cache is a function from keys (texts) to entries [isNull, lat, lng, ts,
\* props]: isNull says the JSON value is null rather than an object, lat and
\* lng are JS values, ts is a number of milliseconds, 0 also standing for a
\* missing ts (both are falsy in "value.ts &&"), and props holds the other
\* properties the object has, by name.  The function holds the own
\* properties of the code's object; its prototype is kept beside it.
EmptyCache == [key \in {} |-> 0]

NoProps == [key \in {} |-> Null]

\* { lat, lng, ts } as line 153 writes it.
Entry(lat, lng, ts) ==
    [isNull |-> FALSE, lat |-> lat, lng |-> lng, ts |-> ts, props |-> NoProps]

NoEntry == [isNull |-> TRUE, lat |-> Null, lng |-> Null, ts |-> 0, props |-> NoProps]

\* The prototype of the object that lines 134 and 129 create with {}: it is
\* Object.prototype until an assignment to the key "__proto__" (lines 137 and
\* 153) replaces it by the value assigned.
ObjectPrototype == [replaced |-> FALSE, value |-> NoEntry]

tProto == <<"_", "_", "p", "r", "o", "t", "o", "_", "_">>

tConstructor == <<"c", "o", "n", "s", "t", "r", "u", "c", "t", "o", "r">>

tlat == <<"l", "a", "t">>

tlng == <<"l", "n", "g">>

tts == <<"t", "s">>

\* The item of localStorage: kind "absent" (getItem returns null),
\* "malformed" (JSON.parse or Object.entries throws) or "json" with its map.
NotLoaded == [done |-> FALSE, cache |-> EmptyCache, proto |-> ObjectPrototype]

AbsentBlob == [kind |-> "absent", map |-> EmptyCache]

MalformedBlob == [kind |-> "malformed", map |-> EmptyCache]

\* Fresh with the age compared by <= : an entry exactly 7 days old is kept.
Fresh_AgeInclusive(value, t) ==
    /\ ~value.isNull
    /\ typeofNumber(value.lat)
    /\ typeofNumber(value.lng)
    /\ value.ts # 0
    /\ t - value.ts <= GEOCODE_CACHE_TTL_MS

\* The test of line 136 on one parsed value at time t.
Fresh(value, t) ==
    /\ ~value.isNull
    /\ typeofNumber(value.lat)
    /\ typeofNumber(value.lng)
    /\ value.ts # 0
    /\ t - value.ts < GEOCODE_CACHE_TTL_MS

\* getGeocodeCache that keeps every stored value, whatever its age.
getGeocodeCache_KeepAll(blob, t) ==
    IF blob.kind # "json" THEN EmptyCache
    ELSE [key \in DOMAIN blob.map \ {tProto} |-> blob.map[key]]

\* The own properties of the object getGeocodeCache returns: out[key] = value
\* of line 137 adds a property for every key but "__proto__".
getGeocodeCache(blob, t) ==
    IF blob.kind # "json" THEN EmptyCache
    ELSE LET keep == {key \in DOMAIN blob.map : Fresh(blob.map[key], t)} \ {tProto}
         IN  [key \in keep |-> blob.map[key]]

\* The prototype of the object getGeocodeCache returns: for the key
\* "__proto__", which JSON.parse reads as an own property of the stored
\* item, line 137 sets the prototype of out to the value, an object with all
\* the properties the item gives it.
CachePrototype(blob, t) ==
    IF blob.kind = "json" /\ tProto \in DOMAIN blob.map /\ Fresh(blob.map[tProto], t)
    THEN [replaced |-> TRUE, value |-> blob.map[tProto]]
    ELSE ObjectPrototype

\* JSON.stringify writes a number that is NaN or +/-Infinity as null.
JsonValue(v) == IF v.k \in {"NaN", "Infinity"} THEN Null ELSE v

\* JSON.stringify(cache), as localStorage holds it and JSON.parse reads it back.
Stringify(cache) ==
    [kind |-> "json",
     map  |-> [key \in DOMAIN cache |->
                  [cache[key] EXCEPT !.lat = JsonValue(@), !.lng = JsonValue(@)]]]

cacheKey(address) == ToLowerCase(Trim(address))

\* An assignment to the key "__proto__" reaches the setter that
\* Object.prototype has under that name, which replaces the prototype, unless
\* the prototype in place has a property of that name itself: then the
\* assignment adds an own property as for any other key.
SetsPrototype(proto, key) ==
    key = tProto /\ ~(proto.replaced /\ tProto \in DOMAIN proto.value.props)

\* PutEntry with the address as written as the key.
PutEntry_RawKey(cache, proto, address, lat, lng, t) ==
    [k \in DOMAIN cache \cup {address} |->
        IF k = address THEN Entry(lat, lng, t) ELSE cache[k]]

\* cache[key] = { lat, lng, ts: Date.now() } of setGeocodeCacheEntry, whose
\* key is computed on line 152 as cacheKey computes it: the own properties
\* afterwards.  The key "__proto__" adds none when it sets the prototype.
PutEntry(cache, proto, address, lat, lng, t) ==
    LET key == ToLowerCase(Trim(address))
    IN  IF SetsPrototype(proto, key) THEN cache
        ELSE [k \in DOMAIN cache \cup {key} |->
                 IF k = key THEN Entry(lat, lng, t) ELSE cache[k]]

\* The prototype of the cache after the assignment of line 153.
PutPrototype(proto, address, lat, lng, t) ==
    IF SetsPrototype(proto, ToLowerCase(Trim(address)))
    THEN [replaced |-> TRUE, value |-> Entry(lat, lng, t)]
    ELSE proto

\* Whether "if (cached)" takes a value for true: a number other than 0 and
\* NaN, a string that is not empty, an object.
Truthy(v) ==
    (v.k = "num" /\ v.m # 0) \/ v.k \in {"Infinity", "string", "object"}

\* What line 172 returns for a truthy value without lat and lng: a function,
\* Object.prototype, a number, a string.
Inherited == [found |-> TRUE, lat |-> Undefined, lng |-> Undefined, ts |-> 0]

NotCached == [found |-> FALSE, lat |-> Undefined, lng |-> Undefined, ts |-> 0]

\* What line 172 makes of the value of an inherited property.
Found(v) ==
    IF ~Truthy(v) THEN NotCached
    ELSE IF v.k = "object"
    THEN [found |-> TRUE, lat |-> v.lat, lng |-> v.lng, ts |-> v.ts]
    ELSE Inherited

\* cache[key] of line 171 and what line 172 makes of it: found says that the
\* value is truthy, lat and lng are cached.lat and cached.lng, and ts is the
\* ts of the entry that was found (0 when what was found has none).  An own
\* property is an entry.  Otherwise the look-up goes to the prototype.  Under
\* a prototype that an entry has replaced, every property of that entry is
\* found first: those of props, and lat, lng and ts with the entry's numbers.
\* Then come the properties of Object.prototype: "__proto__" gives the
\* prototype itself and "constructor" the function Object; every other one
\* has a capital in its name, which no key has.
Cached(cache, proto, key) ==
    IF key \in DOMAIN cache
    THEN [found |-> TRUE, lat |-> cache[key].lat, lng |-> cache[key].lng,
          ts |-> cache[key].ts]
    ELSE IF proto.replaced /\ key \in DOMAIN proto.value.props
    THEN Found(proto.value.props[key])
    ELSE IF proto.replaced /\ key = tlat THEN Found(proto.value.lat)
    ELSE IF proto.replaced /\ key = tlng THEN Found(proto.value.lng)
    ELSE IF proto.replaced /\ key = tts
    THEN IF proto.value.ts # 0 THEN Inherited ELSE NotCached
    ELSE IF key = tProto /\ proto.replaced
    THEN [found |-> TRUE, lat |-> proto.value.lat, lng |-> proto.value.lng,
          ts |-> proto.value.ts]
    ELSE IF key \in {tProto, tConstructor} THEN Inherited
    ELSE NotCached

\* Persist that adds the snapshot to what the item holds instead of replacing it.
Persist_Merge(blob, cache, writeOk) ==
    IF ~writeOk THEN blob
    ELSE IF blob.kind # "json" THEN Stringify(cache)
    ELSE [kind |-> "json",
          map  |-> [key \in DOMAIN blob.map \cup DOMAIN cache |->
                       IF key \in DOMAIN cache THEN Stringify(cache).map[key]
                       ELSE blob.map[key]]]

\* localStorage.setItem inside try/catch: writeOk = FALSE is the write that
\* throws (quota exceeded, storage disabled) and leaves the item as it was.
Persist(blob, cache, writeOk) == IF writeOk THEN Stringify(cache) ELSE blob

\* The callback of geocoder.geocode (lines 176-190) decides on the response
\* [status, results]; a candidate is [geometry, lat, lng], geometry = FALSE
\* standing for a candidate without geometry.location.
GeocodeOk(resp) ==
    /\ resp.status = "OK"
    /\ resp.results # <<>>
    /\ resp.results[1].geometry

----------------------------------------------------------------------------
(* loadGoogleMapsScript                                                    *)

\* LoaderPath without the search for a script element already in the page.
LoaderPath_NoExistingCheck(g, el) == IF g THEN "resolve" ELSE "inject"

\* What the promise executor does, given whether window.google is defined and
\* the state of the script element: "resolve" at once, "attach" listeners to
\* the element found in the document, or "inject" a new element.
LoaderPath(g, el) ==
    IF g THEN "resolve"
    ELSE IF el # "none" THEN "attach"
    ELSE "inject"

----------------------------------------------------------------------------
(* buildInfoWindowContent                                                  *)

\* escapeHtml: the innerHTML of an element whose textContent is the text,
\* that is the serialisation of a text node, which replaces the ampersand,
\* the no-break space, and the two angle brackets.
EscapeChar(c) ==
    IF c = "&" THEN <<"&", "a", "m", "p", ";">>
    ELSE IF c = NBSP THEN <<"&", "n", "b", "s", "p", ";">>
    ELSE IF c = "<" THEN <<"&", "l", "t", ";">>
    ELSE IF c = ">" THEN <<"&", "g", "t", ";">>
    ELSE <<c>>

RECURSIVE escapeHtml(_)
escapeHtml(text) ==
    IF text = <<>> THEN <<>> ELSE EscapeChar(text[1]) \o escapeHtml(Tail(text))

LearnMore == <<"L", "e", "a", "r", "n", " ", "m", "o", "r", "e">>

\* /^https?:\/\//i.test(url)
HttpPrefix(url, n) ==
    /\ Len(url) >= n + 3
    /\ url[1] \in {"h", "H"}
    /\ url[2] \in {"t", "T"}
    /\ url[3] \in {"t", "T"}
    /\ url[4] \in {"p", "P"}
    /\ n = 5 => url[5] \in {"s", "S"}
    /\ SubSeq(url, n + 1, n + 3) = <<":", "/", "/">>

\* Line 253.
hasLink(url) == url # <<>> /\ (HttpPrefix(url, 4) \/ HttpPrefix(url, 5))

\* The pieces of markup the content is assembled from; a content is a
\* sequence whose elements are these pieces and, for the escaped texts put
\* between them, single characters.
ParaClose == "</p>"

AnchorOpen == "<a href=\""

AnchorAttrs == "\" target=\"_blank\" rel=\"noopener noreferrer\">"

AnchorClose == "</a>"

safeLinkText(loc) ==
    IF loc.linkText # <<>> THEN escapeHtml(loc.linkText) ELSE LearnMore

linkHtml(loc) ==
    IF hasLink(loc.linkUrl)
    THEN <<AnchorOpen>> \o escapeHtml(loc.linkUrl) \o <<AnchorAttrs>>
         \o safeLinkText(loc) \o <<AnchorClose>>
    ELSE <<>>

\* Lines 258-264: the parts that are not empty, joined.
buildInfoWindowContent(loc) ==
    (<<"<h3 class=\"map-plugin-info-title\">">> \o escapeHtml(loc.name)
     \o <<"</h3>">>)
    \o (IF escapeHtml(loc.description) # <<>>
        THEN <<"<p class=\"map-plugin-info-desc\">">>
             \o escapeHtml(loc.description) \o <<ParaClose>>
        ELSE <<>>)
    \o (IF linkHtml(loc) # <<>>
        THEN <<"<p class=\"map-plugin-info-link\">">> \o linkHtml(loc) \o <<ParaClose>>
        ELSE <<>>)

----------------------------------------------------------------------------
(* run(): one record per invocation                                        *)

MaxRuns == 2

RunIds == 1..MaxRuns

\* container.innerHTML: what the page had, the three messages of run(), the
\* empty string set before initMap, and the map drawn by new Map(container).
Untouched == "untouched"

Loading == "Loading map"

NoValidRows == "No valid locations found (need Name + Latitude/Longitude or Address)."

NoValidSheet == "No valid locations found in the sheet."

Unable == "Unable to load map. Check the console for details."

Cleared == ""

MapShown == "map"

NoResponse == [status |-> "none", results |-> <<>>]

\* What the promise of geocodeAddress for the row in hand is settled with,
\* until the loop of resolveAddressRows takes it after its await (line 201):
\* not settled, null (ok is FALSE), or { lat, lng }.
NoResult == [settled |-> FALSE, ok |-> FALSE, lat |-> Undefined, lng |-> Undefined]

Settled(ok, lat, lng) == [settled |-> TRUE, ok |-> ok, lat |-> lat, lng |-> lng]

\* pc: idle (not triggered), invalid (returned on a configuration error),
\* fetching (fetch pending), script1 (line 371 pending), loaded1 (line 371
\* resolved, continuation queued), resolving (inside resolveAddressRows),
\* script2 (line 278 pending), import (line 278 resolved, the import of the
\* maps library of line 280 pending), marker (the map is drawn, the import of
\* the marker library of lines 298-300 pending), done.
\* zoom and mapId are the consts of lines 352 and 353 ("" for a mapId that
\* is omitted or empty).  i is the place of the row in hand in needsGeocode,
\* waiting says that geocoder.geocode was called for it and has not called
\* back, and result is what its promise is settled with.
\* markers holds, in order, the entries whose markers initMap has put on the
\* map (lines 304-317).
\* gotText, events, calls, answer, response, after, loaded and loadedAt are
\* not locals of the code: they record that the fetch delivered the sheet,
\* the resolutions made, the calls of geocoder.geocode, the geocoder's answer
\* to the row just handled, the runs that had ended when this one was
\* triggered, and the item getGeocodeCache read and when.
IdleRun ==
    [ pc           |-> "idle",
      gotText      |-> FALSE,
      withCoords   |-> <<>>,
      needsGeocode |-> <<>>,
      cache        |-> EmptyCache,
      proto        |-> ObjectPrototype,
      resolved     |-> <<>>,
      i            |-> 0,
      waiting      |-> FALSE,
      result       |-> NoResult,
      locations    |-> <<>>,
      mapped       |-> FALSE,
      markers      |-> <<>>,
      events       |-> <<>>,
      calls        |-> <<>>,
      answer       |-> "none",
      response     |-> NoResponse,
      zoom         |-> Undefined,
      mapId        |-> "",
      after        |-> {},
      loaded       |-> AbsentBlob,
      loadedAt     |-> 0 ]

Ended(rec) == rec.pc \in {"done", "invalid"}

\* ConfigOk without the check of sheetId.
ConfigOk_NoSheetCheck(c) ==
    /\ c.defined
    /\ c.apiKey # ""
    /\ c.mapContainerId # ""
    /\ c.containerExists

\* Lines 332-350: the configuration checks of run().
ConfigOk(c) ==
    /\ c.defined
    /\ c.sheetId # ""
    /\ c.apiKey # ""
    /\ c.mapContainerId # ""
    /\ c.containerExists

RECURSIVE Pow10(_)
Pow10(n) == IF n = 0 THEN 1 ELSE 10 * Pow10(n - 1)

\* v >= n and v <= n of JS for a value v and an integer n of fewer than 10
\* digits: false for NaN and for a value that is not a number at all
\* (undefined, a string that is not numeric).  m * 10^e is compared without
\* leaving the integers: a value of 10 digits or more lies beyond n on the
\* side of its sign, a value written to a place below 1e-9 lies strictly
\* between -1 and 1, and any other m * 10^e with e < 0 is its integer part
\* (rounded down) and a fraction of at least 0 and less than 1.
GreaterEq(v, n) ==
    IF v.k = "Infinity" THEN v.m > 0
    ELSE IF v.k # "num" THEN FALSE
    ELSE IF v.e >= 0 /\ NumDigits(Abs(v.m)) + v.e > 9 THEN v.m > 0
    ELSE IF v.e >= 0 THEN v.m * Pow10(v.e) >= n
    ELSE IF v.e < 0 - 9 THEN n < 0 \/ (n = 0 /\ v.m >= 0)
    ELSE v.m \div Pow10(0 - v.e) >= n

LessEq(v, n) ==
    IF v.k = "Infinity" THEN v.m < 0
    ELSE IF v.k # "num" THEN FALSE
    ELSE IF v.e >= 0 /\ NumDigits(Abs(v.m)) + v.e > 9 THEN v.m < 0
    ELSE IF v.e >= 0 THEN v.m * Pow10(v.e) <= n
    ELSE IF v.e < 0 - 9 THEN n > 0 \/ (n = 0 /\ v.m <= 0)
    ELSE \/ v.m \div Pow10(0 - v.e) < n
         \/ v.m \div Pow10(0 - v.e) = n /\ v.m % Pow10(0 - v.e) = 0

\* Zoom that takes any number, in the range or not.
Zoom_NoRange(zoomLevel) ==
    IF typeofNumber(zoomLevel) THEN zoomLevel ELSE Num(10, 0)

\* Line 352: the zoom level of the configuration when it is a number from 0
\* to 22, and 10 otherwise.
Zoom(zoomLevel) ==
    IF typeofNumber(zoomLevel) /\ GreaterEq(zoomLevel, 0) /\ LessEq(zoomLevel, 22)
    THEN zoomLevel
    ELSE Num(10, 0)

\* The LocationRow resolveAddressRows pushes for a pending row.
ResolvedEntry(row, lat, lng) ==
    [ name        |-> row.name,
      latitude    |-> lat,
      longitude   |-> lng,
      description |-> row.description,
      linkUrl     |-> row.linkUrl,
      linkText    |-> row.linkText,
      row         |-> row.row ]

\* One resolution, for the record: the row, how it was answered ("cache" or
\* "api"), whether it gave coordinates and which, when, the ts of the cache
\* entry that served it (t itself for an answer of the geocoder), and whether
\* the answer was written to localStorage.
Event(row, via, ok, lat, lng, t, ts, wrote) ==
    [row |-> row.row, address |-> row.address, via |-> via, ok |-> ok,
     lat |-> lat, lng |-> lng, t |-> t, ts |-> ts, wrote |-> wrote]

\* geocoder.geocode({ address }, callback) of line 176, for the record.
Call(row) == [row |-> row.row, address |-> row.address]

\* Lookup that does not wait for the geocoder: after a miss the call is made
\* and the loop goes on to the next row.
Lookup_NoWait(rec, t) ==
    IF Cached(rec.cache, rec.proto, cacheKey(rec.needsGeocode[rec.i].address)).found
    THEN [rec EXCEPT !.result = Settled(FALSE, Undefined, Undefined)]
    ELSE [rec EXCEPT !.calls = Append(@, Call(rec.needsGeocode[rec.i])),
                     !.result = Settled(FALSE, Undefined, Undefined)]

\* geocodeAddress(row.address, cache) for the row in hand, up to the await
\* of line 201 (lines 170-176): a hit settles the promise with the cached
\* pair; a miss calls geocoder.geocode and leaves the promise to its callback.
Lookup(rec, t) ==
    LET row    == rec.needsGeocode[rec.i]
        cached == Cached(rec.cache, rec.proto, cacheKey(row.address))
    IN  IF cached.found
        THEN [rec EXCEPT
                !.result   = Settled(TRUE, cached.lat, cached.lng),
                !.events   = Append(@, Event(row, "cache", TRUE, cached.lat,
                                             cached.lng, t, cached.ts, FALSE)),
                !.answer   = "none",
                !.response = NoResponse]
        ELSE [rec EXCEPT !.waiting = TRUE, !.answer = "none",
                         !.response = NoResponse,
                         !.calls = Append(@, Call(row))]

\* What kind of answer the geocoder gave, as the claims name them.
AnswerKind(resp) ==
    IF resp.status # "OK" THEN "status"
    ELSE IF resp.results = <<>> THEN "empty"
    ELSE IF ~resp.results[1].geometry THEN "no geometry"
    ELSE "ok"

\* Callback that caches the coordinates of a failed answer too.
Callback_CachesFailure(rec, resp, t, writeOk) ==
    [rec EXCEPT
        !.cache    = PutEntry(@, rec.proto, rec.needsGeocode[rec.i].address, NaN, NaN, t),
        !.proto    = PutPrototype(@, rec.needsGeocode[rec.i].address, NaN, NaN, t),
        !.result   = Settled(FALSE, Undefined, Undefined),
        !.events   = Append(@, Event(rec.needsGeocode[rec.i], "api", FALSE, NaN, NaN,
                                     t, t, FALSE)),
        !.answer   = AnswerKind(resp),
        !.response = resp,
        !.waiting  = FALSE]

\* Callback that takes the last candidate instead of the first.
Callback_LastCandidate(rec, resp, t, writeOk) ==
    IF GeocodeOk(resp)
    THEN [rec EXCEPT
            !.cache    = PutEntry(@, rec.proto, rec.needsGeocode[rec.i].address,
                                  resp.results[Len(resp.results)].lat,
                                  resp.results[Len(resp.results)].lng, t),
            !.proto    = PutPrototype(@, rec.needsGeocode[rec.i].address,
                                      resp.results[Len(resp.results)].lat,
                                      resp.results[Len(resp.results)].lng, t),
            !.result   = Settled(TRUE, resp.results[Len(resp.results)].lat,
                                 resp.results[Len(resp.results)].lng),
            !.events   = Append(@, Event(rec.needsGeocode[rec.i], "api", TRUE,
                                         resp.results[Len(resp.results)].lat,
                                         resp.results[Len(resp.results)].lng,
                                         t, t, writeOk)),
            !.answer   = AnswerKind(resp),
            !.response = resp,
            !.waiting  = FALSE]
    ELSE [rec EXCEPT
            !.result   = Settled(FALSE, Undefined, Undefined),
            !.events   = Append(@, Event(rec.needsGeocode[rec.i], "api", FALSE,
                                         NaN, NaN, t, t, FALSE)),
            !.answer   = AnswerKind(resp),
            !.response = resp,
            !.waiting  = FALSE]

\* Callback that drops the row when the write to localStorage fails.
Callback_DropsOnWriteFailure(rec, resp, t, writeOk) ==
    IF GeocodeOk(resp) /\ writeOk
    THEN [rec EXCEPT
            !.cache    = PutEntry(@, rec.proto, rec.needsGeocode[rec.i].address,
                                  resp.results[1].lat, resp.results[1].lng, t),
            !.proto    = PutPrototype(@, rec.needsGeocode[rec.i].address,
                                      resp.results[1].lat, resp.results[1].lng, t),
            !.result   = Settled(TRUE, resp.results[1].lat, resp.results[1].lng),
            !.events   = Append(@, Event(rec.needsGeocode[rec.i], "api", TRUE,
                                         resp.results[1].lat, resp.results[1].lng,
                                         t, t, writeOk)),
            !.answer   = AnswerKind(resp),
            !.response = resp,
            !.waiting  = FALSE]
    ELSE [rec EXCEPT
            !.result   = Settled(FALSE, Undefined, Undefined),
            !.events   = Append(@, Event(rec.needsGeocode[rec.i], "api", FALSE,
                                         NaN, NaN, t, t, FALSE)),
            !.answer   = AnswerKind(resp),
            !.response = resp,
            !.waiting  = FALSE]

\* The callback of geocoder.geocode (lines 176-190) in the run: a failing
\* answer settles the promise with null; a good one puts the pair in the
\* snapshot (line 188) and settles the promise with it (line 189).
Callback(rec, resp, t, writeOk) ==
    LET row == rec.needsGeocode[rec.i]
    IN  IF GeocodeOk(resp)
        THEN [rec EXCEPT
                !.cache    = PutEntry(@, rec.proto, row.address, resp.results[1].lat,
                                      resp.results[1].lng, t),
                !.proto    = PutPrototype(@, row.address, resp.results[1].lat,
                                          resp.results[1].lng, t),
                !.result   = Settled(TRUE, resp.results[1].lat, resp.results[1].lng),
                !.events   = Append(@, Event(row, "api", TRUE, resp.results[1].lat,
                                             resp.results[1].lng, t, t, writeOk)),
                !.answer   = AnswerKind(resp),
                !.response = resp,
                !.waiting  = FALSE]
        ELSE [rec EXCEPT
                !.result   = Settled(FALSE, Undefined, Undefined),
                !.events   = Append(@, Event(row, "api", FALSE, NaN, NaN, t, t, FALSE)),
                !.answer   = AnswerKind(resp),
                !.response = resp,
                !.waiting  = FALSE]

\* The loop of resolveAddressRows after its await (lines 201-213): null is
\* skipped, a pair is pushed with the fields of the row, and the loop goes to
\* the next row.
Continue(rec) ==
    [rec EXCEPT
        !.resolved = IF rec.result.ok
                     THEN Append(@, ResolvedEntry(rec.needsGeocode[rec.i],
                                                  rec.result.lat, rec.result.lng))
                     ELSE @,
        !.result   = NoResult,
        !.i        = @ + 1]

\* Finished without the check for an empty list.
Finished_NoEmptyCheck(rec, all, g, el) ==
    [rec  |-> [rec EXCEPT !.locations = all, !.mapped = TRUE, !.answer = "none",
                          !.response = NoResponse,
                          !.pc = IF LoaderPath(g, el) = "resolve"
                                 THEN "import" ELSE "script2"],
     html |-> Cleared,
     path |-> LoaderPath(g, el)]

\* Lines 380-387 and the start of initMap (line 278): with nothing to show the
\* message is written and the run ends; otherwise the container is cleared and
\* initMap is called with the list, and it calls loadGoogleMapsScript.
Finished(rec, all, g, el) ==
    IF all = <<>>
    THEN [rec  |-> [rec EXCEPT !.pc = "done", !.answer = "none",
                               !.response = NoResponse],
          html |-> NoValidSheet,
          path |-> "none"]
    ELSE [rec  |-> [rec EXCEPT !.locations = all, !.mapped = TRUE, !.answer = "none",
                               !.response = NoResponse,
                               !.pc = IF LoaderPath(g, el) = "resolve"
                                      THEN "import" ELSE "script2"],
          html |-> Cleared,
          path |-> LoaderPath(g, el)]

\* The script element and the count of injections after a call of
\* loadGoogleMapsScript that took the given path.
ScriptAfter(path) == IF path = "inject" THEN "loading" ELSE script

InjectedAfter(path) == IF path = "inject" THEN injected + 1 ELSE injected

----------------------------------------------------------------------------
(* Inputs of the model                                                     *)

T0 == 1

tCafe == <<"C", "a">>

tMa == <<"M", "a">>

tma == <<"m", "a">>

tTi == <<"T", "i">>

RowBoth == [Name |-> tCafe, Latitude |-> <<"4", "0">>, Longitude |-> <<"-", "7", "3">>,
            Address |-> tMa]

RowMa == [Name |-> tCafe, Address |-> tMa]

Rowma == [Name |-> tCafe, Address |-> <<" ", "m", "a", " ">>]

RowTi == [Name |-> tCafe, Address |-> tTi]

RowNothing == [Name |-> tCafe, Latitude |-> <<"x">>, Longitude |-> <<>>]

\* The sheets that can be published; the last has rows whose address,
\* trimmed and lower-cased, names a property that every object inherits.
Sheets ==
    { <<RowNothing>>,
      <<RowBoth>>,
      <<[Name |-> tCafe, Latitude |-> InfinityLit, Longitude |-> <<"5">>], RowBoth>>,
      <<RowMa, Rowma>>,
      <<RowTi, RowMa>>,
      <<[Name |-> <<" ", VT>>, Address |-> tMa], RowMa, RowBoth>>,
      <<[Name |-> tCafe, Address |-> tProto],
        [Name    |-> tCafe,
         Address |-> <<"C", "o", "n", "s", "t", "r", "u", "c", "t", "o", "r", "\r">>]>> }

Candidate(lat, lng) == [geometry |-> TRUE, lat |-> Num(lat, 0), lng |-> Num(lng, 0)]

\* The answers of the geocoder: one or two candidates, no match, OK without
\* candidates, a candidate without geometry, and an error status.
Responses ==
    { [status |-> "OK", results |-> <<Candidate(10, 20)>>],
      [status |-> "OK", results |-> <<Candidate(30, 40), Candidate(10, 20)>>],
      [status |-> "ZERO_RESULTS", results |-> <<>>],
      [status |-> "OK", results |-> <<>>],
      [status |-> "OK", results |-> <<[geometry |-> FALSE, lat |-> NaN, lng |-> NaN]>>],
      [status |-> "OVER_QUERY_LIMIT", results |-> <<Candidate(10, 20)>>] }

\* window.MapPluginConfig: defined says whether it is set at all, and
\* containerExists whether document.getElementById(mapContainerId) finds an
\* element; mapId is "" when the field is omitted.
GoodConfig ==
    [defined |-> TRUE, sheetId |-> "sheet", apiKey |-> "key",
     mapContainerId |-> "map", containerExists |-> TRUE, zoomLevel |-> Num(12, 0),
     mapId |-> ""]

\* What localStorage holds when the page loads: nothing, or the entry an
\* earlier page load left for "ma" at T0.
StoredMa ==
    [kind |-> "json",
     map  |-> [key \in {tma} |->
                 Entry(Num(50, 0), Num(60, 0), T0)]]

InitialStorage == {AbsentBlob, StoredMa}

----------------------------------------------------------------------------
(* Spec: the page, its runs, the script loader, the geocoder and the clock *)

PageInit ==
    /\ runs = [r \in RunIds |-> IdleRun]
    /\ container = Untouched
    /\ script = "none"
    /\ google = FALSE
    /\ injected = 0
    /\ popup = [r \in RunIds |-> [open |-> FALSE, loc |-> <<>>, content |-> <<>>]]

\* Every sheet under the configuration without mapId and under the ones that
\* run() rejects (the sheet of two different addresses over the stored item
\* that has one of them), and a sheet with coordinates and one with an
\* address and coordinates under a configuration with a mapId.
Init ==
    /\ \/ /\ data \in Sheets
          /\ config \in
                { GoodConfig,
                  [GoodConfig EXCEPT !.defined = FALSE],
                  [GoodConfig EXCEPT !.sheetId = ""],
                  [GoodConfig EXCEPT !.apiKey = ""],
                  [GoodConfig EXCEPT !.mapContainerId = "", !.containerExists = FALSE],
                  [GoodConfig EXCEPT !.containerExists = FALSE] }
          /\ storage \in InitialStorage
          /\ data = <<RowTi, RowMa>> => storage = StoredMa
       \/ /\ data \in {<<RowBoth>>, <<RowMa, RowBoth>>}
          /\ config = [GoodConfig EXCEPT !.mapId = "id"]
          /\ storage = AbsentBlob
    /\ parsed = NotParsed
    /\ snapshot = NotLoaded
    /\ now = T0
    /\ PageInit

\* DOMContentLoaded, mercury:load or SQS_PAGE_CHANGED calls run() (lines
\* 331-358): the configuration is checked, the loading message is written and
\* the fetch is started.
Trigger(r) ==
    /\ runs[r].pc = "idle"
    /\ \A q \in RunIds : q < r => runs[q].pc # "idle"
    /\ IF ConfigOk(config)
       THEN /\ container' = Loading
            /\ runs' = [runs EXCEPT ![r].pc = "fetching",
                                    ![r].zoom = Zoom(config.zoomLevel),
                                    ![r].mapId = config.mapId,
                                    ![r].after = {q \in RunIds : Ended(runs[q])}]
       ELSE /\ container' = container
            /\ runs' = [runs EXCEPT ![r].pc = "invalid"]
    /\ UNCHANGED <<data, parsed, snapshot, config, storage, now, script, google, injected,
                   popup>>

\* FetchFail that leaves the display as it is.
FetchFail_NoMessage(r) ==
    /\ runs[r].pc = "fetching"
    /\ runs' = [runs EXCEPT ![r].pc = "done"]
    /\ UNCHANGED <<data, parsed, snapshot, config, container, storage, now, script,
                   google, injected, popup>>

\* The fetch rejects or answers with a status that is not ok: lines 360, 389-392.
FetchFail(r) ==
    /\ runs[r].pc = "fetching"
    /\ container' = Unable
    /\ runs' = [runs EXCEPT ![r].pc = "done"]
    /\ UNCHANGED <<data, parsed, snapshot, config, storage, now, script, google, injected,
                   popup>>

\* The fetch answers with a sheet: lines 363-371.
FetchOk(r) ==
    /\ runs[r].pc = "fetching"
    /\ LET p    == parseLocations(data)
           rec  == [runs[r] EXCEPT !.gotText = TRUE,
                                   !.withCoords = p.withCoords,
                                   !.needsGeocode = p.needsGeocode]
           path == LoaderPath(google, script)
       IN  IF p.withCoords = <<>> /\ p.needsGeocode = <<>>
           THEN /\ container' = NoValidRows
                /\ runs' = [runs EXCEPT ![r] = [rec EXCEPT !.pc = "done"]]
                /\ UNCHANGED <<script, injected>>
           ELSE /\ container' = container
                /\ runs' = [runs EXCEPT ![r] =
                               [rec EXCEPT !.pc = IF path = "resolve"
                                                  THEN "loaded1" ELSE "script1"]]
                /\ script' = ScriptAfter(path)
                /\ injected' = InjectedAfter(path)
    /\ UNCHANGED <<data, parsed, snapshot, config, storage, now, google, popup>>

\* The script runs: window.google is defined, mapPluginMapsCallback is called
\* and the load event fires, resolving every promise that listens.
ScriptLoad ==
    /\ script = "loading"
    /\ script' = "loaded"
    /\ google' = TRUE
    /\ runs' = [r \in RunIds |->
                  IF runs[r].pc = "script1" THEN [runs[r] EXCEPT !.pc = "loaded1"]
                  ELSE IF runs[r].pc = "script2" THEN [runs[r] EXCEPT !.pc = "import"]
                  ELSE runs[r]]
    /\ UNCHANGED <<data, parsed, snapshot, config, container, storage, now, injected,
                   popup>>

\* The error event fires: every promise that listens is rejected and the
\* catch of each such run writes the failure message (lines 389-392).
ScriptError ==
    /\ script = "loading"
    /\ script' = "failed"
    /\ runs' = [r \in RunIds |->
                  IF runs[r].pc \in {"script1", "script2"}
                  THEN [runs[r] EXCEPT !.pc = "done"]
                  ELSE runs[r]]
    /\ container' = IF \E r \in RunIds : runs[r].pc \in {"script1", "script2"}
                    THEN Unable ELSE container
    /\ UNCHANGED <<data, parsed, snapshot, config, storage, now, google, injected,
                   popup>>

\* The continuation of line 371 (lines 373-387): without pending rows the run
\* goes straight to initMap; with pending rows the cache is read and
\* resolveAddressRows runs up to its first await.
AfterScript(r) ==
    /\ runs[r].pc = "loaded1"
    /\ IF runs[r].needsGeocode = <<>>
       THEN LET f == Finished(runs[r], runs[r].withCoords, google, script)
            IN  /\ runs' = [runs EXCEPT ![r] = f.rec]
                /\ container' = f.html
                /\ script' = ScriptAfter(f.path)
                /\ injected' = InjectedAfter(f.path)
       ELSE /\ runs' = [runs EXCEPT ![r] =
                          Lookup([runs[r] EXCEPT !.pc = "resolving",
                                                 !.cache = getGeocodeCache(storage, now),
                                                 !.proto = CachePrototype(storage, now),
                                                 !.loaded = storage,
                                                 !.loadedAt = now,
                                                 !.i = 1], now)]
            /\ UNCHANGED <<container, script, injected>>
    /\ UNCHANGED <<data, parsed, snapshot, config, storage, now, google, popup>>

\* resolveAddressRows goes on after its await (lines 200-214): it takes what
\* the promise was settled with and, when rows are left, calls geocodeAddress
\* for the next one, up to the await.
ResolveStep(r) ==
    /\ runs[r].pc = "resolving"
    /\ runs[r].result.settled
    /\ runs' = [runs EXCEPT ![r] =
                   IF runs[r].i < Len(runs[r].needsGeocode)
                   THEN Lookup(Continue(runs[r]), now)
                   ELSE Continue(runs[r])]
    /\ UNCHANGED <<data, parsed, snapshot, config, container, storage, now,
                   script, google, injected, popup>>

\* GeocodeCallback that writes the snapshot to localStorage after every answer.
GeocodeCallback_AlwaysPersists(r) ==
    /\ runs[r].pc = "resolving"
    /\ runs[r].waiting
    /\ \E resp \in Responses, writeOk \in BOOLEAN :
        LET rec == Callback(runs[r], resp, now, writeOk)
        IN  /\ runs' = [runs EXCEPT ![r] = rec]
            /\ storage' = Persist(storage, rec.cache, writeOk)
    /\ UNCHANGED <<data, parsed, snapshot, config, container, now, script, google, injected,
                   popup>>

\* The geocoder calls back (lines 176-190): on success the entry is put in
\* the snapshot and the snapshot is written to localStorage, and the promise
\* the loop awaits is settled; the loop itself goes on in a later step.
GeocodeCallback(r) ==
    /\ runs[r].pc = "resolving"
    /\ runs[r].waiting
    /\ \E resp \in Responses, writeOk \in BOOLEAN :
        LET rec == Callback(runs[r], resp, now, writeOk)
        IN  /\ runs' = [runs EXCEPT ![r] = rec]
            /\ storage' = IF GeocodeOk(resp)
                          THEN Persist(storage, rec.cache, writeOk)
                          ELSE storage
    /\ UNCHANGED <<data, parsed, snapshot, config, container, now, script, google, injected,
                   popup>>

\* resolveAddressRows returns (line 215) and run() goes on (lines 377-387).
Finish(r) ==
    /\ runs[r].pc = "resolving"
    /\ ~runs[r].waiting
    /\ ~runs[r].result.settled
    /\ runs[r].i > Len(runs[r].needsGeocode)
    /\ LET f == Finished(runs[r], runs[r].withCoords \o runs[r].resolved, google, script)
       IN  /\ runs' = [runs EXCEPT ![r] = f.rec]
           /\ container' = f.html
           /\ script' = ScriptAfter(f.path)
           /\ injected' = InjectedAfter(f.path)
    /\ UNCHANGED <<data, parsed, snapshot, config, storage, now, google, popup>>

\* The import of the maps library resolves (line 280) and the map is drawn
\* in the container (line 290).  Without a mapId a marker is made for every
\* entry of the list and initMap returns (lines 304-324); with a mapId the
\* marker library is imported first (lines 297-302).
Render(r) ==
    /\ runs[r].pc = "import"
    /\ container' = MapShown
    /\ runs' = [runs EXCEPT ![r] =
                   IF runs[r].mapId = ""
                   THEN [runs[r] EXCEPT !.pc = "done", !.markers = runs[r].locations]
                   ELSE [runs[r] EXCEPT !.pc = "marker"]]
    /\ UNCHANGED <<data, parsed, snapshot, config, storage, now, script, google, injected,
                   popup>>

\* The import of the marker library resolves (lines 298-301): a marker is
\* made for every entry of the list and initMap returns (lines 304-324).
Markers(r) ==
    /\ runs[r].pc = "marker"
    /\ runs' = [runs EXCEPT ![r].pc = "done", ![r].markers = runs[r].locations]
    /\ UNCHANGED <<data, parsed, snapshot, config, container, storage, now, script,
                   google, injected, popup>>

\* An import rejects, that of the maps library before the map is drawn or
\* that of the marker library after it: initMap rejects and the catch of
\* run() writes the failure message (lines 389-392).
ImportFail(r) ==
    /\ runs[r].pc \in {"import", "marker"}
    /\ container' = Unable
    /\ runs' = [runs EXCEPT ![r].pc = "done"]
    /\ UNCHANGED <<data, parsed, snapshot, config, storage, now, script, google, injected,
                   popup>>

\* Time passes.  The instants Date.now() takes: T0, and the last millisecond
\* inside and the first millisecond outside the retention window measured
\* from T0.
Tick ==
    /\ \E t \in {T0, T0 + GEOCODE_CACHE_TTL_MS - 1, T0 + GEOCODE_CACHE_TTL_MS} :
          t > now /\ now' = t
    /\ UNCHANGED <<data, parsed, snapshot, config, runs, container, storage,
                   script, google, injected, popup>>

Next ==
    \/ \E r \in RunIds : Trigger(r)
    \/ \E r \in RunIds : FetchFail(r)
    \/ \E r \in RunIds : FetchOk(r)
    \/ ScriptLoad
    \/ ScriptError
    \/ \E r \in RunIds : AfterScript(r)
    \/ \E r \in RunIds : ResolveStep(r)
    \/ \E r \in RunIds : GeocodeCallback(r)
    \/ \E r \in RunIds : Finish(r)
    \/ \E r \in RunIds : Render(r)
    \/ \E r \in RunIds : Markers(r)
    \/ \E r \in RunIds : ImportFail(r)
    \/ Tick

Spec == Init /\ [][Next]_vars

----------------------------------------------------------------------------
(* SpecParse: parseLocations applied to every small sheet                  *)

MaxRows == 2

tA == <<"A">>

\* A text of white space only.
tBlank == <<" ", VT, NBSP>>

\* (Latitude, Longitude) texts: plain numbers, padded and signed numbers,
\* exponents, digits followed by letters, letters followed by digits,
\* Infinity, a lone dot, a number below the normal doubles, and empty cells.
CoordTexts ==
    { << <<"4", "0">>, <<"-", "7", "3">> >>,
      << <<VT, "-", "7", ".", "5", " ">>, <<"1", "e", "2">> >>,
      << <<"1", "2", "e", "-", "3", "2", "4">>, <<"5">> >>,
      << <<"1", "2", "a">>, <<"5">> >>,
      << <<"5">>, <<"a", "1">> >>,
      << <<"I", "n", "f", "i", "n", "i", "t", "y">>, <<"5">> >>,
      << <<"4", "0">>, <<>> >>,
      << <<".">>, <<"5">> >>,
      << <<>>, <<>> >> }

ParseRows ==
    { [Name |-> n, Latitude |-> c[1], Longitude |-> c[2], Address |-> a] :
        n \in {tA, tBlank}, c \in CoordTexts, a \in {<<>>, tBlank, tMa} }
    \cup
    { [Name |-> tA, Latitude |-> c[1], Longitude |-> c[2]] : c \in CoordTexts }
    \cup
    { [Name |-> tA, Address |-> tMa], [Address |-> tMa] }

RECURSIVE SeqsUpTo(_, _)
SeqsUpTo(S, n) ==
    IF n = 0 THEN {<<>>}
    ELSE LET shorter == SeqsUpTo(S, n - 1)
         IN  shorter \cup {Append(s, x) : s \in shorter, x \in S}

InitParse ==
    /\ data \in SeqsUpTo(ParseRows, MaxRows)
    /\ parsed = NotParsed
    /\ snapshot = NotLoaded
    /\ config = GoodConfig
    /\ storage = AbsentBlob
    /\ now = T0
    /\ PageInit

Parse ==
    /\ ~parsed.done
    /\ parsed' = [done |-> TRUE,
                  withCoords |-> parseLocations(data).withCoords,
                  needsGeocode |-> parseLocations(data).needsGeocode]
    /\ UNCHANGED <<data, snapshot, config, runs, container, storage, now,
                   script, google, injected, popup>>

SpecParse == InitParse /\ [][Parse]_vars

----------------------------------------------------------------------------
(* SpecCache: getGeocodeCache applied to every small stored item           *)

tti == <<"t", "i">>

StoredEntry(lat, lng, ts) == Entry(lat, lng, ts)

\* The values a stored key can have: coordinates written at T0, one
\* millisecond later, or at the end of the window; an entry without ts; an
\* entry whose lat or lng is not a number; null; and entries with further
\* properties: an object under the name "ma", and a number under the name
\* "constructor".
StoredValues ==
    { StoredEntry(Num(10, 0), Num(20, 0), T0),
      StoredEntry(Num(10, 0), Num(20, 0), T0 + 1),
      StoredEntry(Num(30, 0), Num(40, 0), T0 + GEOCODE_CACHE_TTL_MS),
      StoredEntry(Num(10, 0), Num(20, 0), 0),
      StoredEntry(Str, Num(20, 0), T0 + 1),
      StoredEntry(Num(10, 0), Null, T0 + 1),
      NoEntry,
      [StoredEntry(Num(10, 0), Num(20, 0), T0 + 1) EXCEPT
          !.props = [key \in {tma} |-> ObjectValue(Num(30, 0), Num(40, 0), T0)]],
      [StoredEntry(Num(10, 0), Num(20, 0), T0 + 1) EXCEPT
          !.props = [key \in {tConstructor} |-> Num(0, 0)]] }

StoredItems ==
    {AbsentBlob, MalformedBlob}
    \cup
    { [kind |-> "json", map |-> m] :
        m \in UNION { [keys -> StoredValues] : keys \in SUBSET {tma, tti} } }
    \cup
    { [kind |-> "json", map |-> m] : m \in [{tProto, tma} -> StoredValues] }

InitCache ==
    /\ data = <<>>
    /\ parsed = NotParsed
    /\ snapshot = NotLoaded
    /\ config = GoodConfig
    /\ storage \in StoredItems
    /\ now \in {T0, T0 + GEOCODE_CACHE_TTL_MS - 1, T0 + GEOCODE_CACHE_TTL_MS,
                T0 + GEOCODE_CACHE_TTL_MS + 1}
    /\ PageInit

Load ==
    /\ ~snapshot.done
    /\ snapshot' = [done |-> TRUE, cache |-> getGeocodeCache(storage, now),
                    proto |-> CachePrototype(storage, now)]
    /\ UNCHANGED <<data, parsed, config, runs, container, storage, now,
                   script, google, injected, popup>>

SpecCache == InitCache /\ [][Load]_vars

----------------------------------------------------------------------------
(* SpecZoom: run() is triggered under every small zoomLevel                *)

\* The zoomLevel of the configuration: the integers from -2 to 24, some
\* numbers with one decimal inside and outside the range, and a field that is
\* omitted, a string, null, NaN or +/-Infinity.
InitZoom ==
    /\ data = <<RowBoth>>
    /\ parsed = NotParsed
    /\ snapshot = NotLoaded
    /\ config \in
          {[GoodConfig EXCEPT !.zoomLevel = z] :
              z \in { Num(m, 0) : m \in (0 - 2)..24 }
                    \cup { Num(m, 0 - 1) : m \in {0 - 5, 5, 75, 215, 225} }
                    \cup { Undefined, Str, Null, NaN, Infinity(1), Infinity(0 - 1) }}
    /\ storage = AbsentBlob
    /\ now = T0
    /\ PageInit

SpecZoom == InitZoom /\ [][\E r \in RunIds : Trigger(r)]_vars

----------------------------------------------------------------------------
(* SpecLive: runs over one sheet, every pending step eventually taken      *)

InitLive ==
    /\ \/ /\ data \in {<<RowNothing>>, <<RowMa, Rowma>>}
          /\ config = GoodConfig
          /\ storage \in InitialStorage
       \/ /\ data = <<RowBoth>>
          /\ config = [GoodConfig EXCEPT !.mapId = "id"]
          /\ storage = AbsentBlob
    /\ parsed = NotParsed
    /\ snapshot = NotLoaded
    /\ now = T0
    /\ PageInit

\* Every external operation that was started responds (the fetch, the script
\* element with its load or its error event, the geocoder with its callback,
\* the imports of the libraries), and every continuation that is queued is
\* run.
Fairness ==
    /\ WF_vars(ScriptLoad \/ ScriptError)
    /\ \A r \in RunIds :
          /\ WF_vars(FetchFail(r) \/ FetchOk(r))
          /\ WF_vars(AfterScript(r))
          /\ WF_vars(ResolveStep(r))
          /\ WF_vars(GeocodeCallback(r))
          /\ WF_vars(Finish(r))
          /\ WF_vars(Render(r) \/ Markers(r) \/ ImportFail(r))

SpecLive == InitLive /\ [][Next]_vars /\ Fairness

----------------------------------------------------------------------------
(* SpecStore: runs that geocode, over every state of the stored item       *)

\* The sheet and the stored item at page load: the sheet whose second row
\* repeats the address of its first over a malformed item and over the item
\* that has "ma", the sheet of one address over an absent and over an
\* unreadable item, and the sheet with a new address before "Ma" over the
\* item that has "ma".  The kind "unreadable" is localStorage.getItem itself
\* throwing (storage disabled), which the catch of line 141 answers as it
\* answers a malformed item.
StoreCases ==
    ({<<RowMa, Rowma>>} \X {MalformedBlob, StoredMa})
    \cup ({<<RowMa>>} \X {AbsentBlob, [kind |-> "unreadable", map |-> EmptyCache]})
    \cup {<<<<RowTi, RowMa>>, StoredMa>>}

\* The cases without a mapId, and one sheet with an address under a
\* configuration with a mapId.
InitStore ==
    /\ \/ /\ \E c \in StoreCases : data = c[1] /\ storage = c[2]
          /\ config = GoodConfig
       \/ /\ data = <<RowMa>>
          /\ storage = AbsentBlob
          /\ config = [GoodConfig EXCEPT !.mapId = "id"]
    /\ parsed = NotParsed
    /\ snapshot = NotLoaded
    /\ now = T0
    /\ PageInit

SpecStore == InitStore /\ [][Next]_vars

----------------------------------------------------------------------------
(* SpecInfo: runs that draw a map, and the clicks on its markers           *)

\* Link URLs: empty, http and https in either case, other schemes, a scheme
\* with nothing or with a blank after it, no scheme, near misses of the
\* scheme, and a URL with white space around it.
LinkUrls ==
    { <<>>,
      <<"h", "t", "t", "p", ":", "/", "/", "a", ".", "b">>,
      <<"h", "t", "t", "p", "s", ":", "/", "/", "a", ".", "b", "/", "c">>,
      <<"H", "T", "T", "P", ":", "/", "/", "a", ".", "b">>,
      <<"H", "t", "t", "p", "S", ":", "/", "/", "A", ".", "b">>,
      <<"f", "t", "p", ":", "/", "/", "a", ".", "b">>,
      <<"h", "t", "t", "p", ":", "/", "/">>,
      <<"h", "t", "t", "p", "s", ":", "/", "/">>,
      <<"a", ".", "b">>,
      <<"h", "t", "t", "p", "x", ":", "/", "/", "a">>,
      <<"h", "t", "t", "p", ":", "/", "a", ".", "b">>,
      <<" ", "h", "t", "t", "p", ":", "/", "/", "a", ".", "b", " ">>,
      <<"h", "t", "t", "p", ":", "/", "/", " ", "b">>,
      <<"s", "h", "t", "t", "p", ":", "/", "/", "a">> }

InfoRows ==
    { [Name |-> tA, Latitude |-> <<"4", "0">>, Longitude |-> <<"5">>,
       Description |-> d, LinkURL |-> u, LinkText |-> l] :
        d \in {<<>>, <<"<", "b", ">", "&">>},
        u \in LinkUrls,
        l \in {<<>>, <<" ">>, <<"G", "o">>, <<"<", "a", ">">>, <<"x", NBSP, "y">>} }

\* One row each, and a row with coordinates, a description and a link before
\* a row that is geocoded: several markers on one map.
InfoSheets ==
    {<<row>> : row \in InfoRows}
    \cup
    {<<[Name |-> tA, Latitude |-> <<"4", "0">>, Longitude |-> <<"5">>,
        Description |-> <<"<", "b", ">", "&">>,
        LinkURL |-> <<"h", "t", "t", "p", ":", "/", "/", "a", ".", "b">>,
        LinkText |-> <<"G", "o">>],
       RowMa>>}

\* Every sheet without a mapId, and the sheet of several markers with one.
InitInfo ==
    /\ \/ /\ data \in InfoSheets
          /\ config = GoodConfig
       \/ /\ data \in InfoSheets
          /\ Len(data) > 1
          /\ config = [GoodConfig EXCEPT !.mapId = "id"]
    /\ parsed = NotParsed
    /\ snapshot = NotLoaded
    /\ storage = AbsentBlob
    /\ now = T0
    /\ PageInit

\* The click listener of a marker of the map of run r (lines 312-316): the
\* content of the one info window of that map is set and the window is
\* opened on the marker, whatever it showed before.
Click(r) ==
    /\ \E j \in 1..Len(runs[r].markers) :
          popup' = [popup EXCEPT ![r] =
                       [open    |-> TRUE,
                        loc     |-> runs[r].markers[j],
                        content |-> buildInfoWindowContent(runs[r].markers[j])]]
    /\ UNCHANGED <<data, parsed, snapshot, config, runs, container, storage, now,
                   script, google, injected>>

NextInfo ==
    \/ Next
    \/ \E r \in RunIds : Click(r)

SpecInfo == InitInfo /\ [][NextInfo]_vars

----------------------------------------------------------------------------
(* Claims about parseLocations (SpecParse)                                 *)

\* The text, trimmed, is a decimal number from its first character to its
\* last: nothing is left over after the number.
NumericText(s) ==
    LET t == Trim(s)
    IN  /\ t # <<>>
        /\ isFinite(ScanFloat(t).val)
        /\ ScanFloat(t).used = Len(t)

\* The rows of data that ended in neither output sequence.
RowsOf(entries) == {entries[j].row : j \in 1..Len(entries)}

DroppedRows ==
    {i \in 1..Len(data) : i \notin RowsOf(parsed.withCoords)
                          /\ i \notin RowsOf(parsed.needsGeocode)}

\* C3: a row is placed in withCoords only when its Latitude text and its
\* Longitude text are both numeric; a text that is empty, is not a number, or
\* merely starts with digits never gets a row there.
C3_OnlyNumericTextHasCoords ==
    parsed.done =>
        \A j \in 1..Len(parsed.withCoords) :
            LET raw == data[parsed.withCoords[j].row]
            IN  /\ NumericText(Col(raw, "Latitude"))
                /\ NumericText(Col(raw, "Longitude"))

\* C4: a row is dropped exactly when its trimmed name is empty or it has
\* neither coordinates that parse nor a non-empty trimmed address; every
\* other row is in exactly one of the two sequences, once; so the two lengths
\* add up to the number of rows minus the number of dropped rows.
C4_DroppedExactly ==
    parsed.done =>
        /\ \A i \in 1..Len(data) :
              LET raw     == data[i]
                  noName  == Trim(Col(raw, "Name")) = <<>>
                  coords  == /\ ~isNaN(parseFloat(Trim(Col(raw, "Latitude"))))
                             /\ ~isNaN(parseFloat(Trim(Col(raw, "Longitude"))))
                  noAddr  == Trim(Col(raw, "Address")) = <<>>
                  inC     == {j \in 1..Len(parsed.withCoords) :
                                 parsed.withCoords[j].row = i}
                  inG     == {j \in 1..Len(parsed.needsGeocode) :
                                 parsed.needsGeocode[j].row = i}
              IN  /\ (i \in DroppedRows) <=> (noName \/ (~coords /\ noAddr))
                  /\ i \notin DroppedRows =>
                        Cardinality(inC) + Cardinality(inG) = 1
        /\ Len(parsed.withCoords) + Len(parsed.needsGeocode)
              = Len(data) - Cardinality(DroppedRows)

\* C4 witness: a parsed sheet of two rows, one dropped for having neither
\* coordinates nor an address although it has a name, the other kept.
C4_Witness ==
    /\ parsed.done
    /\ Len(data) = 2
    /\ Cardinality(DroppedRows) = 1
    /\ \E i \in DroppedRows : Trim(Col(data[i], "Name")) # <<>>
    /\ Len(parsed.needsGeocode) = 1

----------------------------------------------------------------------------
(* Claims about getGeocodeCache (SpecCache)                                *)

\* The keys a look-up is made with: those of the stored items and the names
\* of the properties an object can inherit.
LookupKeys == {tma, tti, tProto, tConstructor, tlat, tlng, tts}

\* C6: whatever the stored item and the time, the loaded mapping holds no
\* entry whose ts lies 7 days or more before now, whatever its coordinates,
\* and every entry it holds is in the stored item under the same key with the
\* same value.  The entries of the mapping are its own properties and what a
\* look-up of a key finds with coordinates that are numbers.
C6_LoadDropsExpired ==
    snapshot.done =>
        /\ \A key \in DOMAIN snapshot.cache :
              /\ now - snapshot.cache[key].ts < 7 * 24 * 60 * 60 * 1000
              /\ storage.kind = "json"
              /\ key \in DOMAIN storage.map
              /\ storage.map[key] = snapshot.cache[key]
        /\ \A key \in LookupKeys :
              (/\ Cached(snapshot.cache, snapshot.proto, key).found
               /\ typeofNumber(Cached(snapshot.cache, snapshot.proto, key).lat)
               /\ typeofNumber(Cached(snapshot.cache, snapshot.proto, key).lng))
              => /\ now - Cached(snapshot.cache, snapshot.proto, key).ts
                       < 7 * 24 * 60 * 60 * 1000
                 /\ storage.kind = "json"
                 /\ key \in DOMAIN storage.map
                 /\ storage.map[key].lat = Cached(snapshot.cache, snapshot.proto, key).lat
                 /\ storage.map[key].lng = Cached(snapshot.cache, snapshot.proto, key).lng
                 /\ storage.map[key].ts = Cached(snapshot.cache, snapshot.proto, key).ts

----------------------------------------------------------------------------
(* Claims about runs (Spec)                                                *)

\* The rows of the sheet that have a name and two coordinates that parse.
CoordRows ==
    {i \in 1..Len(data) :
        /\ Trim(Col(data[i], "Name")) # <<>>
        /\ ~isNaN(parseFloat(Trim(Col(data[i], "Latitude"))))
        /\ ~isNaN(parseFloat(Trim(Col(data[i], "Longitude"))))}

\* C1: in every run that got the sheet, a row with a name and two valid
\* coordinates is in withCoords and not in needsGeocode, also when it has an
\* address, and the run makes no cache lookup and no geocoder call for it.
C1_CoordsRowsNeverGeocoded ==
    \A r \in RunIds :
        runs[r].gotText =>
            \A i \in CoordRows :
                /\ i \in RowsOf(runs[r].withCoords)
                /\ i \notin RowsOf(runs[r].needsGeocode)
                /\ \A j \in 1..Len(runs[r].events) : runs[r].events[j].row # i
                /\ runs[r].waiting => runs[r].needsGeocode[runs[r].i].row # i

\* C1 witness: a finished run over a sheet with a row that has coordinates
\* and an address, in which another row was geocoded.
C1_Witness ==
    \E r \in RunIds :
        /\ runs[r].pc = "done"
        /\ runs[r].events # <<>>
        /\ \E i \in CoordRows : Trim(Col(data[i], "Address")) # <<>>
        /\ runs[r].mapped

\* C2: every entry of the list passed to initMap has a finite latitude and a
\* finite longitude.
C2_RenderedCoordsFinite ==
    \A r \in RunIds :
        runs[r].mapped =>
            \A j \in 1..Len(runs[r].locations) :
                /\ isFinite(runs[r].locations[j].latitude)
                /\ isFinite(runs[r].locations[j].longitude)

NormalizedAddress(e) == ToLowerCase(Trim(e.address))

\* e2 of run r2 resolves, inside the retention window, the address that e1 of
\* run r1 resolved through the geocoder.
SameAddressAgain(e1, e2) ==
    /\ e1.ok /\ e1.via = "api"
    /\ e2.ok
    /\ NormalizedAddress(e1) = NormalizedAddress(e2)
    /\ e2.t - e1.t < 7 * 24 * 60 * 60 * 1000

ServedFromCache(e1, e2) ==
    /\ e2.via = "cache"
    /\ e2.lat = e1.lat
    /\ e2.lng = e1.lng

\* C5 as stated: an address resolved through the geocoder and resolved again
\* inside the window, later in the same run or in a run triggered after the
\* first one ended, is served from the cache with the same coordinates,
\* without a second call.
C5_SecondResolutionFromCache ==
    \A r1 \in RunIds, r2 \in RunIds :
        \A j1 \in 1..Len(runs[r1].events), j2 \in 1..Len(runs[r2].events) :
            LET e1 == runs[r1].events[j1]
                e2 == runs[r2].events[j2]
            IN  (/\ SameAddressAgain(e1, e2)
                 /\ \/ r1 = r2 /\ j1 < j2
                    \/ r1 \in runs[r2].after)
                => ServedFromCache(e1, e2)

\* C5 as amended: the same, for a second resolution later in the same run, or
\* in another run that read the stored item while it held the entry the first
\* resolution wrote.
C5_SecondResolutionFromStoredEntry ==
    \A r1 \in RunIds :
        \A j1 \in 1..Len(runs[r1].events) :
            (runs[r1].events[j1].ok /\ runs[r1].events[j1].via = "api") =>
                \A r2 \in RunIds :
                    \A j2 \in 1..Len(runs[r2].events) :
                        \/ ServedFromCache(runs[r1].events[j1], runs[r2].events[j2])
                        \/ IF r1 = r2 THEN j1 >= j2
                           ELSE runs[r2].loaded.kind # "json"
                        \/ ~SameAddressAgain(runs[r1].events[j1], runs[r2].events[j2])
                        \/ /\ r1 # r2
                           /\ \/ NormalizedAddress(runs[r1].events[j1])
                                    \notin DOMAIN runs[r2].loaded.map
                              \/ runs[r2].loaded.map[NormalizedAddress(runs[r1].events[j1])] #
                                    Entry(runs[r1].events[j1].lat,
                                          runs[r1].events[j1].lng,
                                          runs[r1].events[j1].t)

\* C5 witness: one run geocoded "Ma" and then served " ma " from its
\* snapshot, and a later run, one millisecond before the entry is 7 days
\* old, served the address from the stored entry.
C5_Witness ==
    \E r1 \in RunIds, r2 \in RunIds :
        /\ r1 \in runs[r2].after
        /\ Len(runs[r1].events) = 2 /\ Len(runs[r2].events) >= 1
        /\ runs[r1].events[1].via = "api" /\ runs[r1].events[1].ok
        /\ runs[r1].events[1].address # runs[r1].events[2].address
        /\ SameAddressAgain(runs[r1].events[1], runs[r1].events[2])
        /\ runs[r1].events[2].via = "cache"
        /\ SameAddressAgain(runs[r1].events[1], runs[r2].events[1])
        /\ runs[r2].events[1].via = "cache"
        /\ runs[r2].events[1].t - runs[r1].events[1].t = 7 * 24 * 60 * 60 * 1000 - 1

\* The step in which the geocoder answers run r with a failure.
FailureAnswered(r) ==
    /\ runs[r].waiting
    /\ ~runs'[r].waiting
    /\ runs'[r].answer \in {"status", "empty", "no geometry"}

\* The step in which the loop of run r goes on after an answer that gave no
\* coordinates.
FailureTaken(r) ==
    /\ runs[r].result.settled
    /\ ~runs[r].result.ok
    /\ runs'[r] # runs[r]

\* C7: when the geocoder answers with a status that is not OK, without
\* candidates, or with a first candidate without geometry, no entry is
\* emitted, the snapshot and the stored item stay as they were, the display
\* is not touched, and the run stays in its loop, which goes on at the next
\* row: this in the step of the answer, which settles the row with null, and
\* in the step in which the loop takes the null.
C7_FailureIsRowLocal ==
    [][ \A r \in RunIds :
          /\ FailureAnswered(r) =>
                /\ runs'[r].result = Settled(FALSE, Undefined, Undefined)
                /\ runs'[r].resolved = runs[r].resolved
                /\ runs'[r].cache = runs[r].cache
                /\ storage' = storage
                /\ container' = container
                /\ runs'[r].pc = "resolving"
                /\ runs'[r].i = runs[r].i
                /\ runs'[r].withCoords = runs[r].withCoords
                /\ runs'[r].needsGeocode = runs[r].needsGeocode
          /\ FailureTaken(r) =>
                /\ runs'[r].resolved = runs[r].resolved
                /\ runs'[r].cache = runs[r].cache
                /\ storage' = storage
                /\ container' = container
                /\ runs'[r].pc = "resolving"
                /\ runs'[r].i = runs[r].i + 1
                /\ runs'[r].withCoords = runs[r].withCoords
                /\ runs'[r].needsGeocode = runs[r].needsGeocode ]_vars

\* C7 witness: a finished run whose first pending row failed and whose
\* second row was then resolved through the geocoder and rendered.
C7_Witness ==
    \E r \in RunIds :
        /\ Len(runs[r].events) = 2
        /\ ~runs[r].events[1].ok
        /\ runs[r].events[2].ok /\ runs[r].events[2].via = "api"
        /\ Len(runs[r].resolved) = 1
        /\ runs[r].pc = "done" /\ runs[r].mapped

\* The run got the sheet, no row had coordinates, and every row that needed
\* geocoding was tried and none was resolved.
NothingResolved(rec) ==
    /\ rec.gotText
    /\ rec.withCoords = <<>>
    /\ rec.resolved = <<>>
    /\ Len(rec.events) = Len(rec.needsGeocode)

\* C8: a run in which no row ends up with coordinates (the sheet has no
\* usable row, or every row that needed geocoding failed) ends with the
\* display showing a "No valid locations found" message, and it never called
\* initMap.
C8_NothingToShow ==
    [][ \A r \in RunIds :
          (/\ ~Ended(runs[r])
           /\ Ended(runs'[r])
           /\ NothingResolved(runs'[r]))
          => /\ container' \in {NoValidRows, NoValidSheet}
             /\ ~runs'[r].mapped ]_vars

\* C8 witness: a finished run whose two pending rows both failed, with the
\* message on display.
C8_Witness ==
    \E r \in RunIds :
        /\ runs[r].pc = "done"
        /\ NothingResolved(runs[r])
        /\ Len(runs[r].needsGeocode) = 2
        /\ container = NoValidSheet

\* C9: the Google Maps script element is injected at most once.
C9_InjectedAtMostOnce == injected <= 1

\* C9 witness: two runs have called loadGoogleMapsScript while the script was
\* not loaded, and both wait on the one element.
C9_Witness ==
    /\ injected = 1
    /\ script = "loading"
    /\ Cardinality({r \in RunIds : runs[r].pc = "script1"}) >= 2

\* C10: every call of loadGoogleMapsScript settles.  The load and error
\* events of the element fire once, so a promise that is pending when the
\* element is no longer loading is never settled: the claim needs every
\* pending call to have its event still to come.
C10_PendingCallsCanSettle ==
    \A r \in RunIds :
        runs[r].pc \in {"script1", "script2"} => script = "loading"

----------------------------------------------------------------------------
(* Claims about the order of a run and about overlapping runs (Spec)       *)

ApiEvents(rec) == {j \in 1..Len(rec.events) : rec.events[j].via = "api"}

\* The calls of geocoder.geocode whose callback has not fired yet.
Outstanding(rec) == Len(rec.calls) - Cardinality(ApiEvents(rec))

Increasing(entries) ==
    \A j \in 1..Len(entries), k \in 1..Len(entries) :
        j < k => entries[j].row < entries[k].row

\* C11: within a run the stages are fetch, parse, geocode-all, render: the
\* geocoder is called only after the fetch delivered the sheet, for one row
\* at a time in source row order, a call being made only when every earlier
\* call of the run has been answered, and initMap is called only when every
\* pending row has been resolved or dropped.
C11_StagesInOrder ==
    \A r \in RunIds :
        LET rec == runs[r]
        IN  /\ Outstanding(rec) \in {0, 1}
            /\ (rec.calls # <<>> \/ rec.events # <<>> \/ rec.mapped) => rec.gotText
            /\ Increasing(rec.calls)
            /\ Increasing(rec.events)
            /\ Len(rec.events) <= Len(rec.needsGeocode)
            /\ \A j \in 1..Len(rec.events) :
                  rec.events[j].row = rec.needsGeocode[j].row
            /\ \A j \in 1..Len(rec.calls) :
                  \/ \E k \in ApiEvents(rec) : rec.events[k].row = rec.calls[j].row
                  \/ j = Len(rec.calls) /\ Outstanding(rec) = 1
                     /\ \A k \in 1..Len(rec.events) :
                           rec.events[k].row < rec.calls[j].row
            /\ rec.mapped =>
                  /\ Outstanding(rec) = 0
                  /\ ~rec.result.settled
                  /\ Len(rec.events) = Len(rec.needsGeocode)
                  /\ rec.locations = rec.withCoords \o rec.resolved

\* C11 witness: a run that called the geocoder for two rows and was rendered.
C11_Witness ==
    \E r \in RunIds :
        /\ runs[r].pc = "done" /\ runs[r].mapped
        /\ Len(runs[r].calls) = 2
        /\ runs[r].calls[1].row < runs[r].calls[2].row

\* The step in which the geocoder answers run r.
Answered(r) == runs[r].waiting /\ ~runs'[r].waiting

\* C12: overlapping runs share no snapshot.  The snapshot of a run changes
\* only when that run reads the stored item, once, at the start of its
\* resolution, and when that run's own call succeeds; a write is made by the
\* run whose call succeeded and replaces the stored item with that run's
\* whole snapshot, so that the last write wins.
C12_LastWriteWins ==
    [][ /\ \A r \in RunIds :
              runs'[r].cache # runs[r].cache =>
                  \/ /\ runs[r].pc = "loaded1"
                     /\ runs'[r].loadedAt = now
                     /\ runs'[r].loaded = storage
                  \/ /\ Answered(r)
                     /\ runs'[r].loadedAt = runs[r].loadedAt
                     /\ \A q \in RunIds \ {r} : runs'[q].cache = runs[q].cache
        /\ \A r \in RunIds :
              (runs[r].loadedAt # 0) => (runs'[r].loadedAt = runs[r].loadedAt)
        /\ storage' # storage =>
              \E r \in RunIds :
                  /\ Answered(r)
                  /\ storage'.kind = "json"
                  /\ storage'.map = runs'[r].cache ]_vars

Overlapping(r1, r2) ==
    /\ r1 # r2
    /\ r1 \notin runs[r2].after
    /\ r2 \notin runs[r1].after

\* C12 witness: two overlapping runs have finished, one of them geocoded an
\* address and wrote it to the stored item, and the stored item, written last
\* by the other run, does not have it.
C12_Witness ==
    \E r1 \in RunIds, r2 \in RunIds :
        /\ Overlapping(r1, r2)
        /\ runs[r1].pc = "done" /\ runs[r2].pc = "done"
        /\ storage.kind = "json"
        /\ \E j \in 1..Len(runs[r1].events) :
              /\ runs[r1].events[j].via = "api"
              /\ runs[r1].events[j].ok
              /\ runs[r1].events[j].wrote
              /\ NormalizedAddress(runs[r1].events[j]) \notin DOMAIN storage.map
        /\ \E j \in 1..Len(runs[r2].events) : runs[r2].events[j].wrote

----------------------------------------------------------------------------
(* Claims about failures of the configuration and of the fetch (Spec)      *)

\* The configuration is missing, one of the three required fields is empty,
\* or the container element is not in the page.
ConfigRejected ==
    \/ ~config.defined
    \/ config.sheetId = ""
    \/ config.apiKey = ""
    \/ config.mapContainerId = ""
    \/ ~config.containerExists

\* The run has fetched nothing and done nothing after the fetch.
NothingDone(rec) ==
    /\ ~rec.gotText
    /\ rec.withCoords = <<>> /\ rec.needsGeocode = <<>>
    /\ rec.loadedAt = 0
    /\ rec.calls = <<>> /\ rec.events = <<>> /\ rec.resolved = <<>>
    /\ ~rec.mapped

\* C13: with a rejected configuration a run ends at once: nothing is fetched,
\* no script is loaded, the cache is neither read nor written, the geocoder is
\* not called, nothing is rendered and the display stays as it was.
C13_RejectedConfigDoesNothing ==
    [][ ConfigRejected =>
          /\ container' = container
          /\ storage' = storage
          /\ script' = script /\ google' = google /\ injected' = injected
          /\ \A r \in RunIds :
                /\ runs'[r].pc \in {"idle", "invalid"}
                /\ NothingDone(runs'[r]) ]_vars

\* C13 witness: with an empty sheetId, every run was triggered and returned.
C13_Witness ==
    /\ config.defined /\ config.sheetId = ""
    /\ \A r \in RunIds : runs[r].pc = "invalid"
    /\ container = Untouched

\* C14: a run whose fetch fails ends in that step with the "Unable to load
\* map" message on display; it has parsed nothing, read no cache, called no
\* geocoder and rendered nothing, and once ended it is never resumed.
C14_FetchFailureIsTerminal ==
    [][ \A r \in RunIds :
          /\ (runs[r].pc = "fetching" /\ runs'[r].pc = "done" /\ ~runs'[r].gotText)
             => /\ container' = Unable
                /\ storage' = storage
                /\ script' = script /\ injected' = injected
          /\ (runs'[r].pc = "done" /\ ~runs'[r].gotText) => NothingDone(runs'[r])
          /\ (runs[r].pc = "done") => (runs'[r] = runs[r]) ]_vars

\* C14 witness: the fetch of a run failed and the message is on display.
C14_Witness ==
    \E r \in RunIds :
        /\ runs[r].pc = "done"
        /\ ~runs[r].gotText
        /\ container = Unable
        /\ script = "none"

\* C15: the two sequences of parseLocations list their rows in source row
\* order, and resolveAddressRows returns the entries of the pending rows that
\* were resolved, in the order of the pending rows, the failed ones left out:
\* at every moment its list holds the entries of the resolved rows the loop
\* has gone past, which are all of them when it returns.
C15_OrderPreserved ==
    \A r \in RunIds :
        LET rec == runs[r]
            ok  == {j \in 1..Len(rec.events) : rec.events[j].ok /\ j < rec.i}
        IN  rec.gotText =>
              /\ Increasing(rec.withCoords)
              /\ Increasing(rec.needsGeocode)
              /\ RowsOf(rec.withCoords) \cup RowsOf(rec.needsGeocode) \subseteq 1..Len(data)
              /\ \A j \in 1..Len(rec.needsGeocode) :
                    rec.needsGeocode[j].address =
                        Trim(Col(data[rec.needsGeocode[j].row], "Address"))
              /\ \A j \in 1..Len(rec.withCoords) :
                    rec.withCoords[j].name =
                        Trim(Col(data[rec.withCoords[j].row], "Name"))
              /\ Increasing(rec.resolved)
              /\ RowsOf(rec.resolved) = {rec.events[j].row : j \in ok}
              /\ Len(rec.resolved) = Cardinality(ok)
              /\ rec.mapped => \A j \in 1..Len(rec.events) : j < rec.i

\* C15 witness: a run whose two pending rows were both resolved, to different
\* coordinates, and rendered in the order of the rows.
C15_Witness ==
    \E r \in RunIds :
        /\ Len(runs[r].needsGeocode) = 2
        /\ Len(runs[r].resolved) = 2
        /\ runs[r].resolved[1].row = runs[r].needsGeocode[1].row
        /\ runs[r].resolved[2].row = runs[r].needsGeocode[2].row
        /\ runs[r].resolved[1].latitude # runs[r].resolved[2].latitude
        /\ runs[r].mapped

----------------------------------------------------------------------------
(* Claims about the zoom level (SpecZoom)                                  *)

\* The value is an integer from 0 to 22.
IntegerInRange(v) ==
    /\ v.k = "num"
    /\ v.e >= 0
    /\ v.m * Pow10(v.e) \in 0..22

\* The value is a number from 0 to 22, compared in tenths.
NumberInRange(v) ==
    /\ v.k = "num"
    /\ v.m * Pow10(v.e + 1) \in 0..220

Triggered(rec) == rec.pc \notin {"idle", "invalid"}

\* C16 as stated: the zoom level of a run is an integer within 0..22: the
\* configured zoomLevel when that is an integer in 0..22, and 10 when it is
\* omitted, not a number, or outside 0..22.
C16_ZoomIsIntegerInRange ==
    \A r \in RunIds :
        Triggered(runs[r]) =>
            /\ IntegerInRange(runs[r].zoom)
            /\ IntegerInRange(config.zoomLevel) => runs[r].zoom = config.zoomLevel
            /\ ~NumberInRange(config.zoomLevel) => runs[r].zoom = Num(10, 0)

\* C16 as amended: the zoom level of a run is a number within 0..22, whole or
\* not: the configured zoomLevel when that is a number from 0 to 22, and 10
\* when it is omitted, not a number, or outside 0..22.
C16_ZoomIsNumberInRange ==
    \A r \in RunIds :
        Triggered(runs[r]) =>
            /\ NumberInRange(runs[r].zoom)
            /\ NumberInRange(config.zoomLevel) => runs[r].zoom = config.zoomLevel
            /\ ~NumberInRange(config.zoomLevel) => runs[r].zoom = Num(10, 0)

\* C16 witness: a run triggered with zoomLevel 7.5 has zoom 7.5.
C16_Witness ==
    \E r \in RunIds :
        /\ Triggered(runs[r])
        /\ config.zoomLevel = Num(75, 0 - 1)
        /\ runs[r].zoom = Num(75, 0 - 1)

----------------------------------------------------------------------------
(* Claims about the info window (SpecInfo)                                 *)

HasAnchor(content) == \E j \in 1..Len(content) : content[j] = AnchorOpen

\* The label of the anchor: what stands between the end of its opening tag
\* and its closing tag.
AnchorLabel(content) ==
    LET a == CHOOSE j \in 1..Len(content) : content[j] = AnchorAttrs
        c == CHOOSE j \in 1..Len(content) : content[j] = AnchorClose
    IN  SubSeq(content, a + 1, c - 1)

\* The host of a URL: what follows "://" up to the path, query or fragment.
RECURSIVE HostOf(_)
HostOf(s) ==
    IF s = <<>> \/ s[1] \in {"/", "?", "#"} THEN <<>>
    ELSE <<s[1]>> \o HostOf(Tail(s))

\* A URL with the scheme http or https, a host, and no character a URL
\* cannot have.
WellFormedHttpUrl(url) ==
    /\ \E n \in {4, 5} :
          /\ HttpPrefix(url, n)
          /\ HostOf(Drop(url, n + 3)) # <<>>
    /\ \A j \in 1..Len(url) : url[j] \notin {" ", "\t", "\n", "<", ">"}

\* C17: the content has an anchor exactly when the link URL of the entry is a
\* well-formed http or https URL, and an anchor of an entry without link text
\* is labelled "Learn more".
C17_AnchorIffWellFormedUrl ==
    \A r \in RunIds :
        popup[r].open =>
            /\ HasAnchor(popup[r].content)
                  <=> WellFormedHttpUrl(popup[r].loc.linkUrl)
            /\ (HasAnchor(popup[r].content) /\ popup[r].loc.linkText = <<>>)
                  => AnchorLabel(popup[r].content) = LearnMore

----------------------------------------------------------------------------
(* Claims about successful geocoding and about cached coordinates (Spec)   *)

\* The step in which the geocoder answers run r with status OK and a first
\* candidate that has geometry.
SuccessAnswered(r) ==
    /\ Answered(r)
    /\ runs'[r].response.status = "OK"
    /\ runs'[r].response.results # <<>>
    /\ runs'[r].response.results[1].geometry

\* What the answer leaves in the run: the promise of the row is settled with
\* the first candidate's coordinates, the snapshot maps the trimmed,
\* lower-cased address, which is the key a lookup computes, to them with the
\* current time, and the geocoder had been called with the address as parsed.
SuccessRecorded(r) ==
    LET row   == runs[r].needsGeocode[runs[r].i]
        first == runs'[r].response.results[1]
        key   == ToLowerCase(Trim(row.address))
    IN  /\ runs'[r].result = Settled(TRUE, first.lat, first.lng)
        /\ runs'[r].i = runs[r].i
        /\ key = cacheKey(row.address)
        /\ key \in DOMAIN runs'[r].cache
        /\ runs'[r].cache[key] =
              Entry(first.lat, first.lng, now)
        /\ runs[r].calls[Len(runs[r].calls)].address = row.address
        /\ row.address = Trim(Col(data[row.row], "Address"))

\* The step in which the loop of run r goes on after a successful answer of
\* the geocoder.
SuccessTaken(r) ==
    /\ runs[r].result.settled
    /\ runs[r].answer = "ok"
    /\ runs'[r] # runs[r]

\* The loop emits the entry of the row, with the first candidate's
\* coordinates, and goes on at the next row.
SuccessEmitted(r) ==
    LET row   == runs[r].needsGeocode[runs[r].i]
        first == runs[r].response.results[1]
        entry == runs'[r].resolved[Len(runs'[r].resolved)]
    IN  /\ runs'[r].resolved = Append(runs[r].resolved, entry)
        /\ entry.row = row.row
        /\ entry.name = row.name
        /\ entry.latitude = first.lat /\ entry.longitude = first.lng
        /\ runs'[r].pc = "resolving"
        /\ runs'[r].i = runs[r].i + 1
        /\ runs'[r].cache = runs[r].cache

\* The stored item maps the key of the row to the first candidate's
\* coordinates with the current time.
SuccessStored(r) ==
    LET row   == runs[r].needsGeocode[runs[r].i]
        first == runs'[r].response.results[1]
        key   == ToLowerCase(Trim(row.address))
    IN  /\ storage'.kind = "json"
        /\ key \in DOMAIN storage'.map
        /\ storage'.map[key] =
              Entry(first.lat, first.lng, now)

\* C18 as stated: in the step of a successful answer the snapshot and the
\* stored item both get the first candidate's coordinates under the
\* normalised key, with the current time, and the entry the loop then emits
\* for the row has those coordinates.
C18_SuccessCachedAndStored ==
    [][ \A r \in RunIds :
          /\ SuccessAnswered(r) => (SuccessRecorded(r) /\ SuccessStored(r))
          /\ SuccessTaken(r) => SuccessEmitted(r) ]_vars

\* C18 as amended: the same for the snapshot and the entry; the stored item
\* gets the coordinates in the step of the answer when the write to
\* localStorage succeeds, and is left as it was when the write fails.
C18_SuccessCachedAndStoredIfWritten ==
    [][ \A r \in RunIds :
          /\ SuccessAnswered(r) =>
                /\ SuccessRecorded(r)
                /\ IF runs'[r].events[Len(runs'[r].events)].wrote
                   THEN SuccessStored(r)
                   ELSE storage' = storage
          /\ SuccessTaken(r) => SuccessEmitted(r) ]_vars

\* C18 witness: the geocoder, called with "Ma", answered with two candidates;
\* the loop has emitted the entry, and it and the stored item, under "ma",
\* have the first one's coordinates.
C18_Witness ==
    \E r \in RunIds :
        /\ Len(runs[r].events) >= 1
        /\ runs[r].events[1].via = "api" /\ runs[r].events[1].wrote
        /\ runs[r].calls[1].address = tMa
        /\ Len(runs[r].resolved) >= 1
        /\ runs[r].resolved[1].latitude = Num(30, 0)
        /\ runs[r].response.status = "OK" /\ Len(runs[r].response.results) = 2
        /\ storage.kind = "json"
        /\ tma \in DOMAIN storage.map
        /\ storage.map[tma].lat = Num(30, 0)
        /\ storage.map[tma].ts = runs[r].events[1].t

\* C19: coordinates taken from the snapshot are less than 7 days old at the
\* moment they are used.
C19_CachedCoordsInsideWindow ==
    \A r \in RunIds :
        \A j \in 1..Len(runs[r].events) :
            runs[r].events[j].via = "cache" =>
                runs[r].events[j].t - runs[r].events[j].ts < 7 * 24 * 60 * 60 * 1000

----------------------------------------------------------------------------
(* Claims about termination (SpecLive)                                     *)

TerminalDisplays == {MapShown, NoValidRows, NoValidSheet, Unable}

\* C20: every run that passed the configuration checks ends, and the step
\* that ends it leaves the map or one of the messages on display; this also
\* for a run triggered after an earlier run has ended.
C20_EveryRunEnds ==
    /\ \A r \in RunIds : (runs[r].pc = "fetching") ~> (runs[r].pc = "done")
    /\ [][ \A r \in RunIds :
             (runs[r].pc # "done" /\ runs'[r].pc = "done")
                 => container' \in TerminalDisplays ]_vars

----------------------------------------------------------------------------
(* Claims about what is written to the stored item (Spec)                  *)

\* The keys of the item a run read whose entries were less than 7 days old
\* when it read them.
LoadedFresh(rec) ==
    IF rec.loaded.kind # "json" THEN {}
    ELSE {key \in DOMAIN rec.loaded.map :
             rec.loadedAt - rec.loaded.map[key].ts < 7 * 24 * 60 * 60 * 1000}

\* The answers of the geocoder that gave the run coordinates.
Successes(rec) ==
    {j \in 1..Len(rec.events) : rec.events[j].via = "api" /\ rec.events[j].ok}

AddedKeys(rec) == {NormalizedAddress(rec.events[j]) : j \in Successes(rec)}

\* The entry the run added under the key.
AddedEntry(rec, key) ==
    LET e == rec.events[CHOOSE j \in Successes(rec) :
                            NormalizedAddress(rec.events[j]) = key]
    IN  Entry(e.lat, e.lng, e.t)

\* The step in which run r wrote its snapshot to the stored item.
Wrote(r) ==
    /\ Answered(r)
    /\ runs'[r].events[Len(runs'[r].events)].wrote

\* C21: after a write by a run the stored item holds exactly the entries that
\* were less than 7 days old when the run read the item, as they were, and
\* the entries the run has added; no entry that was expired when the run read
\* the item is written back; and the stored item changes in no other step.
C21_ExpiredNotWrittenBack ==
    [][ /\ \A r \in RunIds :
              Wrote(r) =>
                  LET rec == runs'[r]
                  IN  /\ storage'.kind = "json"
                      /\ DOMAIN storage'.map = LoadedFresh(rec) \cup AddedKeys(rec)
                      /\ \A key \in DOMAIN storage'.map :
                            storage'.map[key] =
                                IF key \in AddedKeys(rec)
                                THEN AddedEntry(rec, key)
                                ELSE rec.loaded.map[key]
                      /\ rec.loaded.kind = "json" =>
                            \A key \in DOMAIN rec.loaded.map \ LoadedFresh(rec) :
                                \/ key \notin DOMAIN storage'.map
                                \/ key \in AddedKeys(rec)
        /\ storage' # storage => \E r \in RunIds : Wrote(r) ]_vars

\* C21 witness: a run read the item when its entry for "ma" was 7 days old,
\* geocoded another address and wrote; the stored item no longer has "ma".
C21_Witness ==
    \E r \in RunIds :
        /\ runs[r].loaded = StoredMa
        /\ runs[r].loadedAt - StoredMa.map[tma].ts >= 7 * 24 * 60 * 60 * 1000
        /\ Len(runs[r].events) = 1
        /\ runs[r].events[1].ok /\ runs[r].events[1].wrote
        /\ storage.kind = "json"
        /\ DOMAIN storage.map = {tti}

----------------------------------------------------------------------------
(* Claims about failures of the stored item (SpecStore)                    *)

\* The run has read the stored item.
HasLoaded(rec) == rec.loadedAt # 0

ReadFailed(rec) == HasLoaded(rec) /\ rec.loaded.kind # "json"

WriteFailed(rec) == \E j \in Successes(rec) : ~rec.events[j].wrote

\* What the run read from the stored item: the entries less than 7 days old.
LoadedCache(rec) == [key \in LoadedFresh(rec) |-> rec.loaded.map[key]]

\* The earlier answers of the geocoder that gave the run coordinates for the
\* address of event j.
EarlierSuccesses(rec, j) ==
    {i \in Successes(rec) :
        i < j /\ NormalizedAddress(rec.events[i]) = NormalizedAddress(rec.events[j])}

\* The run has emitted what a run over the same rows, with the same answers
\* of the geocoder, emits when every write works and the cache starts as
\* initial: the rows are resolved in order; a row is answered by the cache
\* exactly when initial or an earlier success of the run has its address, and
\* then with those coordinates, or when its address names a property that any
\* object has ("__proto__", "constructor"), and then without coordinates; and
\* the entries emitted are those of the rows that were answered and that the
\* loop has gone past (every row, once the run has called initMap), in order.
EmitsAsWith(rec, initial) ==
    LET oks == {j \in 1..Len(rec.events) : rec.events[j].ok /\ j < rec.i}
    IN  /\ \A j \in 1..Len(rec.events) :
              LET e      == rec.events[j]
                  key    == NormalizedAddress(e)
                  before == EarlierSuccesses(rec, j)
              IN  /\ e.row = rec.needsGeocode[j].row
                  /\ e.via = "cache" <=>
                        \/ key \in DOMAIN initial
                        \/ before # {}
                        \/ key \in {tProto, tConstructor}
                  /\ e.via = "cache" =>
                        /\ e.ok
                        /\ IF before # {}
                           THEN \E i \in before : /\ e.lat = rec.events[i].lat
                                                  /\ e.lng = rec.events[i].lng
                           ELSE IF key \in DOMAIN initial
                           THEN /\ e.lat = initial[key].lat
                                /\ e.lng = initial[key].lng
                           ELSE /\ e.lat = Undefined
                                /\ e.lng = Undefined
        /\ Len(rec.resolved) = Cardinality(oks)
        /\ rec.mapped => \A j \in 1..Len(rec.events) : j < rec.i
        /\ \A n \in 1..Len(rec.resolved) :
              LET j == CHOOSE j \in oks :
                          Cardinality({i \in oks : i <= j}) = n
              IN  /\ rec.resolved[n].row = rec.events[j].row
                  /\ rec.resolved[n].latitude = rec.events[j].lat
                  /\ rec.resolved[n].longitude = rec.events[j].lng

\* Nothing is raised by a read of an item that is absent, unreadable or
\* malformed: the run goes on to resolve its rows with an empty snapshot.
SilentRead(r) ==
    (/\ runs[r].pc = "loaded1" /\ runs'[r].pc # "loaded1"
     /\ runs[r].needsGeocode # <<>>
     /\ storage.kind # "json")
        => /\ runs'[r].pc = "resolving"
           /\ runs'[r].loaded = storage
           /\ DOMAIN runs'[r].cache \subseteq
                 {NormalizedAddress(runs'[r].events[j]) : j \in Successes(runs'[r])}
           /\ container' = container

\* Nothing is raised by a write that fails: in the step of the answer the
\* snapshot gets the entry, the promise of the row is settled with the
\* coordinates, and the stored item and the display are as they were; and in
\* the step in which the loop goes on the row's entry is emitted and the run
\* stays in its loop, at the next row.
SilentWrite(r) ==
    /\ (SuccessAnswered(r) /\ ~runs'[r].events[Len(runs'[r].events)].wrote)
          => /\ SuccessRecorded(r)
             /\ runs'[r].pc = "resolving"
             /\ storage' = storage
             /\ container' = container
    /\ (SuccessTaken(r) /\ ~runs[r].events[Len(runs[r].events)].wrote)
          => /\ SuccessEmitted(r)
             /\ storage' = storage
             /\ container' = container

\* C22 as stated: failures of the stored item are silent, and a run that
\* could not read the item, or one of whose writes failed, emits exactly what
\* it would emit with a working cache that starts empty.
C22_FailuresAsWithEmptyCache ==
    /\ [](\A r \in RunIds :
            (ReadFailed(runs[r]) \/ WriteFailed(runs[r]))
                => EmitsAsWith(runs[r], EmptyCache))
    /\ [][\A r \in RunIds : SilentRead(r) /\ SilentWrite(r)]_vars

\* C22, amended: failures of the stored item are silent; a run that could not
\* read the item emits exactly what it would emit with a working cache that
\* starts empty, and a run one of whose writes failed emits exactly what it
\* would emit with a working cache that starts with what the run read.
C22_FailuresAsWithWhatWasRead ==
    /\ [](\A r \in RunIds :
            /\ ReadFailed(runs[r]) => EmitsAsWith(runs[r], EmptyCache)
            /\ WriteFailed(runs[r]) => EmitsAsWith(runs[r], LoadedCache(runs[r])))
    /\ [][\A r \in RunIds : SilentRead(r) /\ SilentWrite(r)]_vars

\* C22 witness: a run read a malformed item, geocoded "Ma" with a write that
\* failed, and answered " ma " from its snapshot with the same coordinates;
\* the stored item is still malformed.
C22_Witness ==
    \E r \in RunIds :
        /\ runs[r].loaded = MalformedBlob
        /\ storage = MalformedBlob
        /\ Len(runs[r].events) = 2
        /\ runs[r].events[1].via = "api" /\ runs[r].events[1].ok
        /\ ~runs[r].events[1].wrote
        /\ runs[r].events[2].via = "cache"
        /\ runs[r].events[2].lat = runs[r].events[1].lat
        /\ Len(runs[r].resolved) = 2

----------------------------------------------------------------------------
(* Claims about when the stored item is written (Spec)                     *)

\* C23: the stored item changes only in the step in which the geocoder gives
\* a run coordinates, and then it holds the key of that row; every other step
\* of a run (reading the item, a cache hit, a failed answer, the render)
\* leaves it as it was; and a run whose sheet has no pending row never reads
\* the item and never calls the geocoder.
C23_WrittenOnlyOnSuccess ==
    [][ /\ storage' # storage =>
              \E r \in RunIds :
                  /\ SuccessAnswered(r)
                  /\ storage'.kind = "json"
                  /\ cacheKey(runs[r].needsGeocode[runs[r].i].address)
                        \in DOMAIN storage'.map
                  /\ \A q \in RunIds \ {r} : runs'[q] = runs[q]
        /\ \A r \in RunIds :
              /\ (runs'[r] # runs[r] /\ ~SuccessAnswered(r)) => storage' = storage
              /\ (runs'[r].gotText /\ runs'[r].needsGeocode = <<>>) =>
                    /\ ~HasLoaded(runs'[r])
                    /\ runs'[r].cache = EmptyCache
                    /\ runs'[r].calls = <<>>
                    /\ runs'[r].events = <<>> ]_vars

\* C23 witness: a run read the item when its only entry was 7 days old, got
\* two failed answers and ended; the item still holds that entry.
C23_Witness ==
    \E r \in RunIds :
        /\ runs[r].pc = "done"
        /\ runs[r].loaded = StoredMa
        /\ runs[r].cache = EmptyCache
        /\ Len(runs[r].events) = 2
        /\ \A j \in 1..2 : runs[r].events[j].via = "api" /\ ~runs[r].events[j].ok
        /\ storage = StoredMa

----------------------------------------------------------------------------
(* Claims about runs that are triggered again (Spec)                       *)

\* C24: when run r2 was triggered while the earlier run r1 had not ended, and
\* r2 has ended, no later step of r1 changes what the container shows: the
\* display after both have ended is what r2 left.
C24_LaterRunOutcomeStays ==
    [][ \A r1, r2 \in RunIds :
            ( /\ r1 < r2
              /\ r1 \notin runs[r2].after
              /\ runs[r2].pc = "done"
              /\ runs[r1].pc # "done"
              /\ runs'[r1] # runs[r1] )
                => container' = container ]_vars

====
